---- MODULE Spec2Model ----
(***************************************************************************)
(* A model of the nf-core/abotyper typing engine:                          *)
(*   - bin/stats_from_pileup.py      the pileup decoder                    *)
(*   - bin/predict_abo_phenotype.py  the report writer                     *)
(*   - bin/aggregate_abo_reports.py  the position classifier and the       *)
(*                                   genotype resolver (ABOReportParser)   *)
(* Marker calls, phenotypes and genotypes are the strings of the source.   *)
(* The source's reliability labels contain U+2264 / U+2265; they are       *)
(* written here with "<=" and ">=".                                        *)
(***************************************************************************)
EXTENDS Integers, Sequences, FiniteSets, TLC

VARIABLES
    pc,          \* where the modelled driver stands
    report6,     \* position blocks of the sample's exon 6 *.ABOPhenotype.txt
    report7,     \* position blocks of the sample's exon 7 *.ABOPhenotype.txt
    exon6_data,  \* DataFrame returned by parse_exon6 (position -> row)
    exon7_data,  \* DataFrame returned by parse_exon7 (position -> row)
    result_df,   \* the one-row result DataFrame of process_file
    line,        \* the pileup line handed to parse_mpileup_line
    stats,       \* what parse_mpileup_line returned, with its event counters
    pileup,      \* the lines of the pileup file of process_mpileup_file
    output,      \* the rows process_mpileup_file wrote, and what it returned
    frequencies, \* what read_nucleotide_frequencies returned
    args,        \* the --exon and --coverage inputs of predict_abo_phenotype
    phenotype_file, \* the report predict_abo_phenotype wrote (args.output)
    sample,      \* a position and its percentages, handed to a classifier
    call,        \* the marker call the classifier returned
    input_dir,   \* the entries of self.input_dir and what each one holds
    listing,     \* the entries os.listdir has still to yield to process_files
    results,     \* self.results, the result rows appended so far
    failed_samples, \* self.failed_samples, the {sample, reason} entries
    final_df     \* the frame merge_dataframes returned to run

vars == <<pc, report6, report7, exon6_data, exon7_data, result_df, line, stats,
          pileup, output, frequencies, args, phenotype_file, sample, call,
          input_dir, listing, results, failed_samples, final_df>>

\* the state of the aggregator, of the single-line decoder, of the
\* per-sample file pipeline and of the classifier on its own
decoderVars == <<line, stats>>
fileVars == <<pileup, output, frequencies, args, phenotype_file>>
classifierVars == <<sample, call>>
dirVars == <<input_dir, listing, final_df>>

\* the value of a variable the behaviour at hand makes no use of
Idle == [none |-> TRUE]

(***************************************************************************)
(* aggregate_abo_reports.py : the diagnostic panel                          *)
(***************************************************************************)

\* all_positions of parse_exon6
Exon6Positions == {22, 27, 29, 58}

\* all_positions of parse_exon7
Exon7Positions == {422, 428, 429, 431, 467, 539, 646, 681, 745, 820, 1054, 1061}

\* the five positions read by the primary genotyping logic
PrimaryPositions == {22, 422, 428, 429, 431}

\* the positions read by the A subtyping logic
SubtypePositions == (Exon6Positions \cup Exon7Positions) \ PrimaryPositions

\* a report file holds no block for the position
NoBlock == [absent |-> TRUE]

\* float NaN in a numeric column of a DataFrame (a cell that was never set)
NaN == -1

\* the row of an unset result_df position: every cell NaN, str(NaN) = "nan"
NaNRow ==
    [Reads |-> NaN, Mat |-> NaN, Mis |-> NaN, Ins |-> NaN, Del |-> NaN,
     A |-> NaN, G |-> NaN, C |-> NaN, T |-> NaN, Type |-> "nan"]

(***************************************************************************)
(* The position classifiers.                                               *)
(***************************************************************************)

\* abs() that forgets to drop the sign
Abs_identity(x) == x

\* abs() that flips every sign
Abs_negated(x) == -x

Abs(x) == IF x < 0 THEN -x ELSE x

get_type_exon6(pos, a, g, c, t, dele) ==
    IF pos = 22 THEN
        IF g >= 80 /\ g > dele THEN "A or B or O"
        ELSE IF dele >= 80 /\ dele > g THEN "O1"
        ELSE IF Abs(g + dele) >= 20 THEN "O1 and (A or B or O)"
        ELSE IF 20 < dele /\ dele < 80 /\ 20 < g /\ g < 80
             THEN "O1 and (A or B or O)"
        ELSE ""
    ELSE IF pos = 27 THEN
        IF c >= 80 THEN "A1 or A3"
        ELSE IF t >= 80 THEN "A2"
        ELSE IF 20 < c /\ c < 80 /\ 20 < t /\ t < 80 THEN "A1/A3 and A2"
        ELSE ""
    ELSE IF pos = 29 THEN
        IF t >= 80 THEN "A1 or A3"
        ELSE IF c >= 80 THEN "A2"
        ELSE IF 20 < t /\ t < 80 /\ 20 < c /\ c < 80 THEN "A1/A3 and A2"
        ELSE ""
    ELSE IF pos = 58 THEN
        IF a >= 80 THEN "A1 or A3"
        ELSE IF g >= 80 THEN "A2"
        ELSE IF 20 < a /\ a < 80 /\ 20 < g /\ g < 80 THEN "A1/A3 and A2"
        ELSE ""
    ELSE ""

\* the shape shared by the eight A-subtype branches of get_type:
\* hi >= 80, else alt >= 80, else both in (20,80), else ""
SubtypeBand(hi, alt, hiLabel, altLabel, bothLabel) ==
    IF hi >= 80 THEN hiLabel
    ELSE IF alt >= 80 THEN altLabel
    ELSE IF 20 < hi /\ hi < 80 /\ 20 < alt /\ alt < 80 THEN bothLabel
    ELSE ""

get_type(pos, a, g, c, t) ==
    IF pos = 422 THEN
        IF c >= 80 THEN "A or O"
        ELSE IF a >= 80 THEN "B"
        ELSE IF Abs(a - c) <= 20 THEN "(A or O) and B"
        ELSE IF 15 < a /\ a < 80 /\ 15 < c /\ c < 80 THEN "(A or O) and B"
        ELSE ""
    ELSE IF pos = 428 THEN
        IF g >= 80 THEN "O and (A or B)"
        ELSE IF a >= 80 THEN "O2"
        ELSE IF Abs(g - a) <= 20 THEN "O2 and (O or A or B)"
        ELSE IF 15 < g /\ g < 80 /\ 15 < a /\ a < 80 THEN "O2 and (O or A or B)"
        ELSE ""
    ELSE IF pos = 429 THEN
        IF g >= 80 THEN "A or O"
        ELSE IF c >= 80 THEN "B"
        ELSE IF Abs(g - c) <= 20 THEN "(A or O) and B"
        ELSE IF 15 < g /\ g < 80 /\ 20 < c /\ c < 80 THEN "(A or O) and B"
        ELSE ""
    ELSE IF pos = 431 THEN
        IF t >= 80 THEN "O and (A or B)"
        ELSE IF g >= 80 THEN "O3"
        ELSE IF Abs(t - g) <= 20 THEN "O3 and (O or A or B)"
        ELSE IF 20 < t /\ t < 80 /\ 20 < g /\ g < 80 THEN "O3 and (O or A or B)"
        ELSE ""
    ELSE IF pos = 467 THEN SubtypeBand(c, t, "A1", "A2 or A3", "A1 and (A2 or A3)")
    ELSE IF pos = 539 THEN SubtypeBand(c, t, "A1 or A2", "A3", "(A1 or A2) and A3")
    ELSE IF pos = 646 THEN SubtypeBand(t, a, "A1", "A2", "A1 and A2")
    ELSE IF pos = 681 THEN SubtypeBand(g, a, "A1 or A2", "A3", "(A1 or A2) and A3")
    ELSE IF pos = 745 THEN SubtypeBand(c, t, "A1 or A2", "A3", "(A1 or A2) and A3")
    ELSE IF pos = 820 THEN SubtypeBand(a, c, "A1 or A2", "A3", "(A1 or A2) and A3")
    ELSE IF pos = 1054 THEN SubtypeBand(g, a, "A1 or A3", "A2", "(A1 or A3) and A2")
    ELSE IF pos = 1061 THEN SubtypeBand(c, t, "A1", "A2 or A3", "A1 and (A2 or A3)")
    ELSE ""

(***************************************************************************)
(* parse_exon6 / parse_exon7: the blocks found in the report, one zero row *)
(* for every required position that has no block, then the Type column.    *)
(***************************************************************************)

\* the row appended for a missing position (before the Type column exists)
ZeroStats ==
    [Reads |-> 0, Mat |-> 0, Mis |-> 0, Ins |-> 0, Del |-> 0,
     A |-> 0, G |-> 0, C |-> 0, T |-> 0]

\* a block whose statistics line does not unpack into eight numbers: the
\* float() or the unpacking raises ValueError
BadBlock == [malformed |-> TRUE]

\* the positions of the blocks the line loop stored
BlockPositions(report) == {p \in DOMAIN report : report[p] # NoBlock}

\* a parser that adds no row for a missing position
RowPositions_noFill(report, all_positions) == BlockPositions(report)

\* the positions with a row once the missing ones of all_positions are added
RowPositions(report, all_positions) == all_positions \cup BlockPositions(report)

\* the row of position pos before classification
FilledRow(report, pos) ==
    IF pos \in BlockPositions(report) THEN report[pos] ELSE ZeroStats

WithType(row, type) ==
    [Reads |-> row.Reads, Mat |-> row.Mat, Mis |-> row.Mis, Ins |-> row.Ins,
     Del |-> row.Del, A |-> row.A, G |-> row.G, C |-> row.C, T |-> row.T,
     Type |-> type]

\* a parser that classifies the rows of the blocks before it adds the rows
\* of the missing positions, whose Type cell then stays NaN
parse_exon6_classifiesFirst(report) ==
    IF \E p \in DOMAIN report : report[p] = BadBlock
    THEN [pos \in Exon6Positions |-> WithType(ZeroStats, "")]
    ELSE [pos \in RowPositions(report, Exon6Positions) |->
            IF pos \in BlockPositions(report)
            THEN LET row == report[pos]
                 IN  WithType(row, get_type_exon6(pos, row.A, row.G, row.C, row.T, row.Del))
            ELSE WithType(ZeroStats, "nan")]

\* the except branch returns a zero row with Type "" for every required
\* position
parse_exon6(report) ==
    IF \E p \in DOMAIN report : report[p] = BadBlock
    THEN [pos \in Exon6Positions |-> WithType(ZeroStats, "")]
    ELSE [pos \in RowPositions(report, Exon6Positions) |->
            LET row == FilledRow(report, pos)
            IN  WithType(row, get_type_exon6(pos, row.A, row.G, row.C, row.T, row.Del))]

parse_exon7(report) ==
    IF \E p \in DOMAIN report : report[p] = BadBlock
    THEN [pos \in Exon7Positions |-> WithType(ZeroStats, "")]
    ELSE [pos \in RowPositions(report, Exon7Positions) |->
            LET row == FilledRow(report, pos)
            IN  WithType(row, get_type(pos, row.A, row.G, row.C, row.T))]

(***************************************************************************)
(* assign_phenotype_genotype                                               *)
(***************************************************************************)

\* `sub in str(type)` on the closed vocabulary of marker calls ("nan" is
\* str(NaN), the text of a Type cell that was never set)
In(sub, type) ==
    CASE sub = "A1 or A3" -> type \in {"A1 or A3", "(A1 or A3) and A2"}
      [] sub = "A1 or A2" -> type \in {"A1 or A2", "(A1 or A2) and A3"}
      [] sub = "A2 or A3" -> type \in {"A2 or A3", "A1 and (A2 or A3)"}
      [] sub = "A1 and"   -> type \in {"A1 and (A2 or A3)", "A1 and A2"}
      [] sub = "A1" -> type \in {"A1 or A3", "A1/A3 and A2", "A1",
                                 "A1 and (A2 or A3)", "A1 or A2",
                                 "(A1 or A2) and A3", "A1 and A2",
                                 "(A1 or A3) and A2"}
      [] sub = "A2" -> type \in {"A2", "A1/A3 and A2", "A2 or A3",
                                 "A1 and (A2 or A3)", "A1 or A2",
                                 "(A1 or A2) and A3", "A1 and A2",
                                 "(A1 or A3) and A2"}
      [] sub = "A3" -> type \in {"A1 or A3", "A1/A3 and A2", "A2 or A3",
                                 "A1 and (A2 or A3)", "A3",
                                 "(A1 or A2) and A3", "(A1 or A3) and A2"}

\* a branch list in which a second branch tests the tuple of the first
PrimaryPatterns_shadowed ==
    << [t |-> <<"A or B or O", "A or O", "O and (A or B)", "A or O", "O and (A or B)">>,
        Phenotype |-> "A", Genotype |-> "AA", ExtendedGenotype |-> "AA"],
       [t |-> <<"A or B or O", "A or O", "O and (A or B)", "A or O", "O and (A or B)">>,
        Phenotype |-> "O", Genotype |-> "OO", ExtendedGenotype |-> "O1O1"] >>

\* the 15 branches of PART 1, in source order:
\* <<exon6 22, exon7 422, 428, 429, 431>> -> Phenotype, Genotype, ExtendedGenotype
PrimaryPatterns ==
    << [t |-> <<"O1 and (A or B or O)", "A or O", "O and (A or B)", "A or O", "O and (A or B)">>,
        Phenotype |-> "A", Genotype |-> "AO", ExtendedGenotype |-> "AO1"],
       [t |-> <<"A or B or O", "A or O", "O2 and (O or A or B)", "A or O", "O and (A or B)">>,
        Phenotype |-> "A", Genotype |-> "AO", ExtendedGenotype |-> "AO2"],
       [t |-> <<"A or B or O", "A or O", "O and (A or B)", "A or O", "O3 and (O or A or B)">>,
        Phenotype |-> "A", Genotype |-> "AO", ExtendedGenotype |-> "AO3"],
       [t |-> <<"O1 and (A or B or O)", "B", "O and (A or B)", "B", "O and (A or B)">>,
        Phenotype |-> "B", Genotype |-> "BO", ExtendedGenotype |-> "BO1"],
       [t |-> <<"A or B or O", "B", "O2 and (O or A or B)", "B", "O and (A or B)">>,
        Phenotype |-> "B", Genotype |-> "BO", ExtendedGenotype |-> "BO2"],
       [t |-> <<"A or B or O", "B", "O and (A or B)", "B", "O3 and (O or A or B)">>,
        Phenotype |-> "B", Genotype |-> "BO", ExtendedGenotype |-> "BO3"],
       [t |-> <<"O1", "A or O", "O2", "A or O", "O and (A or B)">>,
        Phenotype |-> "O", Genotype |-> "OO", ExtendedGenotype |-> "O1O2"],
       [t |-> <<"O1", "A or O", "O and (A or B)", "A or O", "O3">>,
        Phenotype |-> "O", Genotype |-> "OO", ExtendedGenotype |-> "O1O3"],
       [t |-> <<"A or B or O", "A or O", "O2", "A or O", "O3">>,
        Phenotype |-> "O", Genotype |-> "OO", ExtendedGenotype |-> "O2O3"],
       [t |-> <<"O1", "A or O", "O and (A or B)", "A or O", "O and (A or B)">>,
        Phenotype |-> "O", Genotype |-> "OO", ExtendedGenotype |-> "O1O1"],
       [t |-> <<"A or B or O", "A or O", "O2", "A or O", "O and (A or B)">>,
        Phenotype |-> "O", Genotype |-> "OO", ExtendedGenotype |-> "O2O2"],
       [t |-> <<"A or B or O", "A or O", "O and (A or B)", "A or O", "O3">>,
        Phenotype |-> "O", Genotype |-> "OO", ExtendedGenotype |-> "O3O3"],
       [t |-> <<"A or B or O", "A or O", "O and (A or B)", "A or O", "O and (A or B)">>,
        Phenotype |-> "A", Genotype |-> "AA", ExtendedGenotype |-> "AA"],
       [t |-> <<"A or B or O", "B", "O and (A or B)", "B", "O and (A or B)">>,
        Phenotype |-> "B", Genotype |-> "BB", ExtendedGenotype |-> "BB"],
       [t |-> <<"A or B or O", "(A or O) and B", "O and (A or B)", "(A or O) and B", "O and (A or B)">>,
        Phenotype |-> "AB", Genotype |-> "AB", ExtendedGenotype |-> "AB"] >>

\* a chain that leaves the comparison at 431 out of every branch
MatchedBranch_skips431(t) ==
    LET same(i) == \A k \in 1..4 : PrimaryPatterns[i].t[k] = t[k]
    IN  IF \E i \in 1..Len(PrimaryPatterns) : same(i)
        THEN CHOOSE i \in 1..Len(PrimaryPatterns) : same(i) /\ \A j \in 1..(i - 1) : ~same(j)
        ELSE 0

\* a chain that leaves the comparison at 22 out of every branch
MatchedBranch_skips22(t) ==
    LET same(i) == \A k \in 2..5 : PrimaryPatterns[i].t[k] = t[k]
    IN  IF \E i \in 1..Len(PrimaryPatterns) : same(i)
        THEN CHOOSE i \in 1..Len(PrimaryPatterns) : same(i) /\ \A j \in 1..(i - 1) : ~same(j)
        ELSE 0

\* the if/elif chain: the index of the first branch whose five comparisons
\* all hold, 0 for the final else
MatchedBranch(t) ==
    IF \E i \in 1..Len(PrimaryPatterns) : PrimaryPatterns[i].t = t
    THEN CHOOSE i \in 1..Len(PrimaryPatterns) :
            /\ PrimaryPatterns[i].t = t
            /\ \A j \in 1..(i - 1) : PrimaryPatterns[j].t # t
    ELSE 0

\* a lookup that takes the call of 1054 for that of 1061
TypeOrEmpty_from1054(df, pos) ==
    IF pos = 1061 THEN df.cells[1054].Type
    ELSE IF pos \in DOMAIN df.cells THEN df.cells[pos].Type ELSE ""

\* df.at[0, (column, "Type")] if the column is in df.columns else ""
TypeOrEmpty(df, pos) ==
    IF pos \in DOMAIN df.cells THEN df.cells[pos].Type ELSE ""

\* PART 2: the three evidence flags, each the disjunction of the places that
\* set it to True (no place sets a flag back to False)
SubtypeFlags(df) ==
    LET e27 == TypeOrEmpty(df, 27)
        e29 == TypeOrEmpty(df, 29)
        e58 == TypeOrEmpty(df, 58)
        t467 == TypeOrEmpty(df, 467)
        t539 == TypeOrEmpty(df, 539)
        t646 == TypeOrEmpty(df, 646)
        t681 == TypeOrEmpty(df, 681)
        t745 == TypeOrEmpty(df, 745)
        t820 == TypeOrEmpty(df, 820)
        t1061 == TypeOrEmpty(df, 1061)
        anyA3 == In("A3", t539) \/ In("A3", t681) \/ In("A3", t745) \/ In("A3", t820)
        anyA1 == In("A1", t467) \/ In("A1", t1061) \/ In("A1", t646)
        exon6A1A3 == In("A1 or A3", e27) \/ In("A1 or A3", e29) \/ In("A1 or A3", e58)
        exon6A2 == In("A2", e27) \/ In("A2", e29) \/ In("A2", e58)
        r467 == t467 # "A1" /\ t467 = "A2 or A3"
        r1061 == ~In("A1", t1061) /\ In("A2 or A3", t1061)
        mixed == In("A1 and", t467) \/ In("A1 and", t646) \/ In("A1 and", t1061)
    IN  [a1 |-> \/ exon6A1A3 /\ ~anyA3
                \/ t467 = "A1"
                \/ In("A1 or A2", t539) /\ anyA1
                \/ t646 = "A1"
                \/ In("A1 or A2", t681) /\ anyA1
                \/ In("A1", t1061)
                \/ mixed,
         a2 |-> \/ exon6A2
                \/ r467 /\ ~anyA3
                \/ In("A1 or A2", t539) /\ ~anyA1
                \/ t646 # "A1" /\ t646 = "A2"
                \/ In("A1 or A2", t681) /\ ~anyA1
                \/ r1061 /\ ~anyA3
                \/ mixed /\ ~anyA3,
         a3 |-> \/ exon6A1A3 /\ anyA3
                \/ r467 /\ anyA3
                \/ ~In("A1 or A2", t539) /\ In("A3", t539)
                \/ ~In("A1 or A2", t681) /\ In("A3", t681)
                \/ r1061 /\ anyA3
                \/ mixed /\ anyA3,
         anyA1 |-> anyA1,
         anyA3 |-> anyA3]

SubtypeGenotype_singleFirst(df) ==
    LET f == SubtypeFlags(df)
    IN  IF f.a1 THEN "A1A1"
        ELSE IF f.a2 THEN "A2A2"
        ELSE IF f.a3 THEN "A3A3"
        ELSE "AA"

\* "Apply A extended genotype"
SubtypeGenotype(df) ==
    LET f == SubtypeFlags(df)
    IN  IF f.a1 /\ f.a2 /\ f.a3 THEN
            IF f.anyA1 THEN (IF f.anyA3 THEN "A1A3" ELSE "A1A2") ELSE "A2A3"
        ELSE IF f.a1 /\ f.a2 THEN "A1A2"
        ELSE IF f.a1 /\ f.a3 THEN "A1A3"
        ELSE IF f.a2 /\ f.a3 THEN "A2A3"
        ELSE IF f.a1 THEN "A1A1"
        ELSE IF f.a2 THEN "A2A2"
        ELSE IF f.a3 THEN "A3A3"
        ELSE "AA"

Min(S) == CHOOSE x \in S : \A y \in S : x <= y

\* a grading that takes the minimum over the zero counts too
ReliabilityOf_keepsZeros(read_counts) ==
    LET kept == {x \in read_counts : x # NaN}
    IN  IF kept # {} THEN
            LET min_reads == Min(kept)
            IN  IF min_reads <= 20 THEN "Very Low(<=20 reads)"
                ELSE IF min_reads < 50 THEN "Low (<=50 reads)"
                ELSE IF min_reads >= 500 THEN "Robust(>=500 reads)"
                ELSE "Normal"
        ELSE "Unknown (no read data)"

\* "Determine reliability based on read counts"; read_counts is the set of the
\* five primary #Reads cells
ReliabilityOf(read_counts) ==
    LET kept == {x \in read_counts : x # NaN /\ x > 0}
    IN  IF kept # {} THEN
            LET min_reads == Min(kept)
            IN  IF min_reads <= 20 THEN "Very Low(<=20 reads)"
                ELSE IF min_reads < 50 THEN "Low (<=50 reads)"
                ELSE IF min_reads >= 500 THEN "Robust(>=500 reads)"
                ELSE "Normal"
        ELSE "Unknown (no read data)"

Refines_always(i) == TRUE

\* PART 2 (A subtyping) sits inside the branch of combination 13 only
Refines(i) == PrimaryPatterns[i].Genotype = "AA"

\* the reads of df.at[0, (column, "Type")] and df.at[0, (column, "#Reads")]
\* at the top of the try block find their columns
HasPrimaryColumns(df) ==
    \A p \in PrimaryPositions :
        /\ p \in DOMAIN df.cells
        /\ {"Type", "Reads"} \subseteq DOMAIN df.cells[p]

\* an update that stops after the first of the four assignments
WithResult_phenotypeOnly(df, phenotype, genotype, extended, reliability) ==
    [cells |-> df.cells, Phenotype |-> phenotype, Genotype |-> df.Genotype,
     ExtendedGenotype |-> df.ExtendedGenotype, Reliability |-> df.Reliability]

WithResult(df, phenotype, genotype, extended, reliability) ==
    [cells |-> df.cells, Phenotype |-> phenotype, Genotype |-> genotype,
     ExtendedGenotype |-> extended, Reliability |-> reliability]

assign_phenotype_genotype(df) ==
    IF ~HasPrimaryColumns(df)
    THEN \* df.at raises KeyError: the outer except
         WithResult(df, "Error", "Error", "Error", "Error processing")
    ELSE
        LET t == <<df.cells[22].Type, df.cells[422].Type, df.cells[428].Type,
                   df.cells[429].Type, df.cells[431].Type>>
            read_counts == {df.cells[p].Reads : p \in PrimaryPositions}
            i == MatchedBranch(t)
            Reliability == ReliabilityOf(read_counts)
        IN  IF i = 0
            THEN WithResult(df, "Unknown", "Unknown", "Unknown", Reliability)
            ELSE IF Refines(i)
            THEN WithResult(df, "A", "AA", SubtypeGenotype(df), Reliability)
            ELSE WithResult(df, PrimaryPatterns[i].Phenotype, PrimaryPatterns[i].Genotype,
                            PrimaryPatterns[i].ExtendedGenotype, Reliability)

(***************************************************************************)
(* process_file, from the creation of result_df on.                         *)
(***************************************************************************)

\* result_df = pd.DataFrame(columns=self.columns) with row 0 created: every
\* position cell and every result cell is NaN
EmptyResult ==
    [cells |-> [pos \in Exon6Positions \cup Exon7Positions |-> NaNRow],
     Phenotype |-> "nan", Genotype |-> "nan", ExtendedGenotype |-> "nan",
     Reliability |-> "nan"]

\* the loops over positions that copy the ten columns of each row found in
\* the parsed table into result_df
CopyRows(df, data, positions) ==
    [cells |-> [pos \in DOMAIN df.cells |->
                    IF pos \in positions /\ pos \in DOMAIN data
                    THEN data[pos] ELSE df.cells[pos]],
     Phenotype |-> df.Phenotype, Genotype |-> df.Genotype,
     ExtendedGenotype |-> df.ExtendedGenotype, Reliability |-> df.Reliability]

NoData == <<>>
NoLine == [none |-> TRUE]
NoStats == [none |-> TRUE]

\* exon6_data = self.parse_exon6(...) and the copy of its rows
ProcessExon6 ==
    /\ pc = "exon6"
    /\ exon6_data' = parse_exon6(report6)
    /\ result_df' = CopyRows(result_df, parse_exon6(report6), Exon6Positions)
    /\ pc' = "exon7"
    /\ UNCHANGED <<report6, report7, exon7_data, decoderVars, fileVars, classifierVars,
                   dirVars, results, failed_samples>>

\* exon7_data = self.parse_exon7(...) and the copy of its rows
ProcessExon7 ==
    /\ pc = "exon7"
    /\ exon7_data' = parse_exon7(report7)
    /\ result_df' = CopyRows(result_df, parse_exon7(report7), Exon7Positions)
    /\ pc' = "assign"
    /\ UNCHANGED <<report6, report7, exon6_data, decoderVars, fileVars, classifierVars,
                   dirVars, results, failed_samples>>

\* result_df = self.assign_phenotype_genotype(result_df) and
\* self.results.append(result_df)
AssignPhenotypeGenotype ==
    /\ pc = "assign"
    /\ result_df' = assign_phenotype_genotype(result_df)
    /\ results' = Append(results, result_df')
    /\ pc' = "done"
    /\ UNCHANGED <<report6, report7, exon6_data, exon7_data, decoderVars, fileVars,
                   classifierVars, dirVars, failed_samples>>

(***************************************************************************)
(* The reports a sample can come with.                                      *)
(***************************************************************************)

\* at most this many of the 11 subtype positions carry a block when the
\* subtype calls are varied
MaxSubtypeBlocks == 3

\* at most this many of the 5 primary positions have a read count of their
\* own when the read counts are varied
MaxVariedReads == 2

Bases == {"A", "G", "C", "T", "Del"}

\* the two percentages each classifier branch compares, and a third base
\* that takes the rest: <<high-threshold base, alt-threshold base, other>>
Marker(pos) ==
    CASE pos = 22 -> <<"G", "Del", "A">>
      [] pos = 27 -> <<"C", "T", "A">>
      [] pos = 29 -> <<"T", "C", "A">>
      [] pos = 58 -> <<"A", "G", "C">>
      [] pos = 422 -> <<"C", "A", "G">>
      [] pos = 428 -> <<"G", "A", "C">>
      [] pos = 429 -> <<"G", "C", "A">>
      [] pos = 431 -> <<"T", "G", "A">>
      [] pos = 467 -> <<"C", "T", "A">>
      [] pos = 539 -> <<"C", "T", "A">>
      [] pos = 646 -> <<"T", "A", "G">>
      [] pos = 681 -> <<"G", "A", "C">>
      [] pos = 745 -> <<"C", "T", "A">>
      [] pos = 820 -> <<"A", "C", "G">>
      [] pos = 1054 -> <<"G", "A", "C">>
      [] pos = 1061 -> <<"C", "T", "A">>

\* <<percentage of the high-threshold base, percentage of the alt base>>
PairChoices == {<<100, 0>>, <<0, 100>>, <<50, 50>>, <<70, 30>>, <<60, 0>>, <<0, 0>>}

\* the pairs that give the three non-empty calls of a subtype position
SubtypePairs == {<<100, 0>>, <<0, 100>>, <<50, 50>>}

\* read counts around the reliability thresholds
ReadChoices == {0, 20, 21, 41, 49, 50, 499, 500}

\* a report block of position pos with count reads, x% of the high base,
\* y% of the alt base and the rest on a third base
BlockAt(pos, count, x, y) ==
    LET m == Marker(pos)
        rest == IF x + y = 0 THEN 0 ELSE 100 - x - y
        v == [b \in Bases |-> IF b = m[1] THEN x
                              ELSE IF b = m[2] THEN y
                              ELSE IF b = m[3] THEN rest ELSE 0]
    IN  [Reads |-> count, Mat |-> x, Mis |-> v["A"] + v["G"] + v["C"] + v["T"] - x,
         Ins |-> 0, Del |-> v["Del"],
         A |-> v["A"], G |-> v["G"], C |-> v["C"], T |-> v["T"]]

\* the two report files holding the blocks f gives the 16 positions
HasReports(f) ==
    /\ report6 = [p \in Exon6Positions |-> f[p]]
    /\ report7 = [p \in Exon7Positions |-> f[p]]

Option(pos, q, count) ==
    IF q = <<>> THEN NoBlock ELSE BlockAt(pos, count, q[1], q[2])

\* each primary block is absent or has any pair; no subtype block
PrimarySweep ==
    \E q \in [PrimaryPositions -> PairChoices \cup {<<>>}] :
        HasReports([p \in Exon6Positions \cup Exon7Positions |->
                        IF p \in PrimaryPositions THEN Option(p, q[p], 100)
                        ELSE NoBlock])

\* every primary block has the same pair; up to MaxVariedReads of them have
\* any read count of ReadChoices, the others all 0 or all 1000 reads; every
\* subtype block is there with 5 reads
ReadsSweep ==
    \E S \in {X \in SUBSET PrimaryPositions : Cardinality(X) <= MaxVariedReads} :
        \E n \in [S -> ReadChoices], d \in {0, 1000}, q \in {<<100, 0>>, <<60, 0>>} :
            HasReports([p \in Exon6Positions \cup Exon7Positions |->
                            IF p \in S THEN BlockAt(p, n[p], q[1], q[2])
                            ELSE IF p \in PrimaryPositions THEN BlockAt(p, d, q[1], q[2])
                            ELSE BlockAt(p, 5, 100, 0)])

\* the primary blocks of an AA sample, and up to MaxSubtypeBlocks subtype
\* blocks, each with one of the pairs that give a non-empty call
SubtypeSweep ==
    \E S \in {X \in SUBSET SubtypePositions : Cardinality(X) <= MaxSubtypeBlocks} :
        \E q \in [S -> SubtypePairs] :
            HasReports([p \in Exon6Positions \cup Exon7Positions |->
                            IF p \in PrimaryPositions THEN BlockAt(p, 100, 100, 0)
                            ELSE IF p \in S THEN BlockAt(p, 100, q[p][1], q[p][2])
                            ELSE NoBlock])

\* reports whose parsing raises, reports without any block, and reports
\* with a block of a position that is not on the panel
OddReports ==
    \E bad6 \in Exon6Positions \cup {0}, bad7 \in Exon7Positions \cup {0},
       q \in {<<>>, <<100, 0>>}, other \in {0, 93, 687} :
        /\ report6 = [p \in Exon6Positions |->
                        IF p = bad6 THEN BadBlock ELSE Option(p, q, 100)]
        /\ report7 = [p \in Exon7Positions \cup ({other} \ {0}) |->
                        IF p = bad7 THEN BadBlock
                        ELSE IF p = other THEN BlockAt(467, 100, 100, 0)
                        ELSE Option(p, q, 100)]

Init ==
    /\ pc = "exon6"
    /\ PrimarySweep \/ ReadsSweep \/ SubtypeSweep \/ OddReports
    /\ exon6_data = NoData
    /\ exon7_data = NoData
    /\ result_df = EmptyResult
    /\ line = NoLine
    /\ stats = NoStats
    /\ pileup = Idle /\ output = Idle /\ frequencies = Idle /\ args = Idle
    /\ phenotype_file = Idle
    /\ sample = Idle /\ call = Idle
    /\ input_dir = Idle /\ listing = Idle /\ final_df = Idle
    /\ results = <<>> /\ failed_samples = <<>>

Next == ProcessExon6 \/ ProcessExon7 \/ AssignPhenotypeGenotype

Spec == Init /\ [][Next]_vars

(***************************************************************************)
(* stats_from_pileup.py : parse_mpileup_line                                *)
(*                                                                         *)
(* A line is modelled by what the function reads of it: the number of      *)
(* tab-separated fields, whether fields[1] and fields[3] are integers and  *)
(* their values, fields[2], and fields[4] as a sequence of one-character   *)
(* strings; exon_info and total_rows are the two other arguments.          *)
(***************************************************************************)

None == [none |-> TRUE]

\* an exception that leaves the function body
Raised == [raised |-> TRUE]

Digits == {"0", "1", "2", "3", "4", "5", "6", "7", "8", "9"}

DigitValue(ch) ==
    CASE ch = "0" -> 0 [] ch = "1" -> 1 [] ch = "2" -> 2 [] ch = "3" -> 3
      [] ch = "4" -> 4 [] ch = "5" -> 5 [] ch = "6" -> 6 [] ch = "7" -> 7
      [] ch = "8" -> 8 [] ch = "9" -> 9

\* str.upper() on one character
Upper(ch) ==
    CASE ch = "a" -> "A" [] ch = "c" -> "C" [] ch = "g" -> "G" [] ch = "t" -> "T"
      [] ch = "n" -> "N" [] OTHER -> ch

create_zero_stats(pos, ref_base) ==
    [pos |-> pos, ref_base |-> ref_base, match_percent |-> 0, mismatch_percent |-> 0,
     insertion_percent |-> 0, deletion_percent |-> 0, A_percent |-> 0, G_percent |-> 0,
     C_percent |-> 0, T_percent |-> 0, depth |-> 0]

\* a substitution that drops the "^" and keeps the character after it
StripReadStarts_keepsNext(s) == SelectSeq(s, LAMBDA ch : ch # "^")

\* re.sub(r"\^.", "", read_bases): leftmost non-overlapping matches; a "^"
\* that is the last character matches nothing and stays
RECURSIVE StripReadStarts(_)
StripReadStarts(s) ==
    IF s = <<>> THEN <<>>
    ELSE IF s[1] = "^" /\ Len(s) >= 2 THEN StripReadStarts(SubSeq(s, 3, Len(s)))
    ELSE \* the characters up to the next "^" are kept as they are
         LET k == Min({m \in 2..(Len(s) + 1) : m > Len(s) \/ s[m] = "^"})
         IN  SubSeq(s, 1, k - 1) \o StripReadStarts(SubSeq(s, k, Len(s)))

\* read_bases.replace("$", "")
StripReadEnds(s) == SelectSeq(s, LAMBDA ch : ch # "$")

\* the counters before the scanning loop
NoEvents ==
    [matches |-> 0, mismatches |-> 0, insertions |-> 0, deletions |-> 0,
     base_counts |-> [b \in {"A", "G", "C", "T"} |-> 0], key_error |-> FALSE]

\* a length reader that takes one digit only
AfterDigits_oneDigit(s, i) ==
    IF i <= Len(s) /\ s[i] \in Digits THEN i + 1 ELSE i

\* the index after the run of digits that starts at i
RECURSIVE AfterDigits(_, _)
AfterDigits(s, i) ==
    IF i <= Len(s) /\ s[i] \in Digits THEN AfterDigits(s, i + 1) ELSE i

\* int(s[i..j-1]) if that run is not empty else 0
RECURSIVE IntOf(_, _, _)
IntOf(s, i, j) ==
    IF i >= j THEN 0 ELSE 10 * IntOf(s, i, j - 1) + DigitValue(s[j - 1])

\* the index after the run of the character s[i] that starts at i
RunEnd(s, i) == Min({k \in (i + 1)..(Len(s) + 1) : k > Len(s) \/ s[k] # s[i]})

\* the while loop over read_bases from index i (1-based) with counters ev;
\* base_counts[ref_base] += 1 raises KeyError when ref_base is not A, G, C, T.
\* The turns of the loop over a run of one and the same match, mismatch,
\* "*" or ignored character are taken together: n turns add n.
RECURSIVE ScanFrom(_, _, _, _)
ScanFrom(s, ref_base, i, ev) ==
    IF i > Len(s) \/ ev.key_error THEN ev
    ELSE IF s[i] \in {".", ","} THEN
        IF ref_base \in {"A", "G", "C", "T"}
        THEN LET n == RunEnd(s, i) - i
             IN  ScanFrom(s, ref_base, i + n,
                     [ev EXCEPT !.matches = @ + n, !.base_counts[ref_base] = @ + n])
        ELSE [ev EXCEPT !.matches = @ + 1, !.key_error = TRUE]
    ELSE IF Upper(s[i]) \in {"A", "C", "G", "T"} THEN
        LET n == RunEnd(s, i) - i
        IN  ScanFrom(s, ref_base, i + n,
                [ev EXCEPT !.mismatches = @ + n, !.base_counts[Upper(s[i])] = @ + n])
    ELSE IF s[i] = "+" THEN
        LET j == AfterDigits(s, i + 1)
        IN  ScanFrom(s, ref_base, j + IntOf(s, i + 1, j), [ev EXCEPT !.insertions = @ + 1])
    ELSE IF s[i] = "-" THEN
        LET j == AfterDigits(s, i + 1)
        IN  ScanFrom(s, ref_base, j + IntOf(s, i + 1, j), [ev EXCEPT !.deletions = @ + 1])
    ELSE IF s[i] = "*" THEN
        LET n == RunEnd(s, i) - i
        IN  ScanFrom(s, ref_base, i + n, [ev EXCEPT !.deletions = @ + n])
    ELSE ScanFrom(s, ref_base, RunEnd(s, i), ev)

\* the counters after the loop for the raw read_bases of the line
CountEvents(read_bases, ref_base) ==
    ScanFrom(StripReadEnds(StripReadStarts(read_bases)), ref_base, 1, NoEvents)

\* int((count / denominator) * 100) in IEEE double arithmetic: the quotient
\* is rounded to a double before it is multiplied, and for the quotients
\* 0.29, 0.57 and 0.58 the product falls just below the whole number
\* (int(0.29 * 100) = 28); every other quotient truncates to the exact floor
PyPercent(count, denominator) ==
    LET exact == (100 * count) \div denominator
    IN  IF (100 * count) % denominator = 0 /\ exact \in {29, 57, 58}
        THEN exact - 1 ELSE exact

\* "Determine if we should include insertions and deletions"
IncludeIndels(pos, coverage, exon_info, total_rows) ==
    IF exon_info = "exon6" /\ coverage < 200 /\ pos # 22 THEN FALSE
    ELSE IF total_rows > 140 /\ coverage < 200 THEN pos \in {431, 687}
    ELSE TRUE

\* a version that leaves the rounding remainder out
ForceSum_never(base_percentages, ref_base) == base_percentages

\* "Force sum of ATGC to be 100% by adjusting the reference base"
ForceSum(base_percentages, ref_base) ==
    LET atgc_sum == base_percentages["A"] + base_percentages["G"]
                      + base_percentages["C"] + base_percentages["T"]
    IN  IF atgc_sum # 100 /\ atgc_sum > 0
        THEN [base_percentages EXCEPT ![ref_base] = @ + (100 - atgc_sum)]
        ELSE base_percentages

\* lines 151-204: the percentages from the counters; Raised is the KeyError
\* of base_percentages[ref_base]
Percentages(pos, ref_base, coverage, ev, include_indels) ==
    LET total_events == ev.matches + ev.mismatches + ev.insertions + ev.deletions
        total_nucleotides == ev.matches + ev.mismatches
        denominator == IF include_indels THEN total_events ELSE total_nucleotides
        raw == [b \in {"A", "G", "C", "T"} |-> PyPercent(ev.base_counts[b], denominator)]
        base_percentages == IF include_indels THEN raw ELSE ForceSum(raw, ref_base)
    IN  IF ~include_indels /\ denominator = 0 THEN create_zero_stats(pos, ref_base)
        ELSE IF ref_base \notin {"A", "G", "C", "T"} THEN Raised
        ELSE [pos |-> pos, ref_base |-> ref_base,
              match_percent |-> base_percentages[ref_base],
              mismatch_percent |->
                  base_percentages["A"] + base_percentages["G"] + base_percentages["C"]
                    + base_percentages["T"] - base_percentages[ref_base],
              insertion_percent |->
                  IF include_indels THEN PyPercent(ev.insertions, denominator) ELSE 0,
              deletion_percent |->
                  IF include_indels THEN PyPercent(ev.deletions, denominator) ELSE 0,
              A_percent |-> base_percentages["A"], G_percent |-> base_percentages["G"],
              C_percent |-> base_percentages["C"], T_percent |-> base_percentages["T"],
              depth |-> coverage]

\* the body of the try block: a record, None, or Raised
ParseBody(l) ==
    IF l.nfields < 6 THEN None
    ELSE IF ~l.pos_is_int \/ ~l.depth_is_int THEN Raised
    ELSE
        LET ref_base == Upper(l.ref_base)
            ev == CountEvents(l.read_bases, ref_base)
            total_events == ev.matches + ev.mismatches + ev.insertions + ev.deletions
        IN  IF l.depth = 0 THEN create_zero_stats(l.pos, ref_base)
            ELSE IF ev.key_error THEN Raised
            ELSE IF total_events = 0 THEN create_zero_stats(l.pos, ref_base)
            ELSE Percentages(l.pos, ref_base, l.depth, ev,
                             IncludeIndels(l.pos, l.depth, l.exon_info, l.total_rows))

\* a call without the handler: what the body raises reaches the caller
parse_mpileup_line_noExcept(l) == ParseBody(l)

\* `except Exception`: whatever the body raises is reported and None returned
parse_mpileup_line(l) ==
    IF ParseBody(l) = Raised THEN None ELSE ParseBody(l)

\* the counters the loop ended with, when the call reached the loop
EventsOf(l) ==
    IF l.nfields < 6 \/ ~l.pos_is_int \/ ~l.depth_is_int \/ l.depth = 0
    THEN NoEvents
    ELSE CountEvents(l.read_bases, Upper(l.ref_base))

\* stats = parse_mpileup_line(line, exon_info, total_rows)
ParseMpileupLine ==
    /\ pc = "line"
    /\ stats' = [ret |-> parse_mpileup_line(line), events |-> EventsOf(line)]
    /\ pc' = "parsed"
    /\ UNCHANGED <<report6, report7, exon6_data, exon7_data, result_df, line, fileVars,
                   classifierVars, dirVars, results, failed_samples>>

(***************************************************************************)
(* The pileup lines the decoder is run on (specification SpecDecoder).      *)
(***************************************************************************)

\* the longest read-base code of the exhaustive family
MaxLen == 3

\* one character of every kind the loop tells apart: match (two spellings),
\* mismatch in both cases, deleted base, indel signs, digits, read start,
\* read end
Alphabet == {".", ",", "A", "c", "*", "+", "-", "1", "2", "^", "$"}

StringsUpTo(n, chars) == UNION {[1..k -> chars] : k \in 0..n}

Repeat(ch, n) == [k \in 1..n |-> ch]

\* a well-formed line
Line(pos, ref_base, depth, read_bases, exon_info, total_rows) ==
    [nfields |-> 6, pos_is_int |-> TRUE, pos |-> pos, ref_base |-> ref_base,
     depth_is_int |-> TRUE, depth |-> depth, read_bases |-> read_bases,
     exon_info |-> exon_info, total_rows |-> total_rows]

\* <<exon_info, total_rows, pos>>: the cases of the indel policy
ModeCases ==
    {<<"exon6", 135, 22>>, <<"exon6", 135, 23>>, <<"exon7", 820, 431>>,
     <<"exon7", 820, 687>>, <<"exon7", 820, 100>>, <<"none", 100, 5>>,
     <<"none", 300, 5>>, <<"exon6", 141, 22>>}

\* every read-base code up to MaxLen characters, in an exon 6 file at
\* position 22 (indels included) and position 23 (indels excluded)
ShortLines ==
    \E rb \in StringsUpTo(MaxLen, Alphabet),
       c \in {<<22, "G">>, <<23, "G">>, <<23, "N">>} :
        line = Line(c[1], c[2], 5, rb, "exon6", 135)

\* lines with too few fields, a non-integer position or depth, depth 0
FieldLines ==
    \E nf \in {3, 5, 6, 7}, pi \in BOOLEAN, di \in BOOLEAN, d \in {0, 5},
       rb \in {<<>>, <<"*">>, <<".">>, <<"$">>, <<"^">>}, ref \in {"G", "g", "N"} :
        line = [nfields |-> nf, pos_is_int |-> pi, pos |-> 23, ref_base |-> ref,
                depth_is_int |-> di, depth |-> d, read_bases |-> rb,
                exon_info |-> "exon6", total_rows |-> 135]

\* the characters that follow the length of an indel token, in turn
BodyCycle == <<"A", ".", "*", "c", ",", "2", "+", "-">>

IndelBody(n) == [k \in 1..n |-> BodyCycle[((k - 1) % Len(BodyCycle)) + 1]]

\* the decimal text of n < 100
DigitsOf(n) ==
    LET d == <<"0", "1", "2", "3", "4", "5", "6", "7", "8", "9">>
    IN  IF n < 10 THEN <<d[n + 1]>> ELSE <<d[(n \div 10) + 1], d[(n % 10) + 1]>>

\* one indel token with a length of one or two digits, between a simple prefix
\* and any suffix of up to two characters; the token may be cut short by the
\* end of the code
IndelLines ==
    \E u \in StringsUpTo(1, {".", "A", "*"}), sign \in {"+", "-"},
       n \in {1, 2, 10, 12}, cut \in {0, 1},
       v \in StringsUpTo(2, Alphabet) :
        line = Line(22, "G", 5,
                    u \o <<sign>> \o DigitsOf(n) \o IndelBody(n - cut) \o
                        (IF cut = 0 THEN v ELSE <<>>),
                    "exon6", 135)

RunLens == {0, 1, 3, 21, 29, 50}

\* the longest code of runs, in characters
MaxRun == 60

\* long codes: runs of matches, of mismatches and of deleted bases, under
\* every case of the indel policy, below and above 200 reads
RunLines ==
    \E n1 \in RunLens, n2 \in RunLens, n3 \in RunLens, c \in ModeCases,
       d \in {50, 250}, ref \in {"G", "A"} :
        /\ n1 + n2 + n3 <= MaxRun
        /\ line = Line(c[3], ref, d,
                       Repeat(".", n1) \o Repeat("a", n2) \o Repeat("*", n3),
                       c[1], c[2])

InitDecoder ==
    /\ pc = "line"
    /\ ShortLines \/ FieldLines \/ IndelLines \/ RunLines
    /\ stats = NoStats
    /\ report6 = NoData
    /\ report7 = NoData
    /\ exon6_data = NoData
    /\ exon7_data = NoData
    /\ result_df = EmptyResult
    /\ pileup = Idle /\ output = Idle /\ frequencies = Idle /\ args = Idle
    /\ phenotype_file = Idle
    /\ sample = Idle /\ call = Idle
    /\ input_dir = Idle /\ listing = Idle /\ final_df = Idle
    /\ results = Idle /\ failed_samples = Idle

NextDecoder == ParseMpileupLine

SpecDecoder == InitDecoder /\ [][NextDecoder]_vars

(***************************************************************************)
(* stats_from_pileup.py : process_mpileup_file                              *)
(***************************************************************************)

\* "Determine exon type based on reference length"
ExonInfo(ref_length) ==
    IF 130 <= ref_length /\ ref_length <= 140 THEN "exon6"
    ELSE IF 800 <= ref_length /\ ref_length <= 830 THEN "exon7"
    ELSE "none"

\* the first pass: unique_positions of the lines whose second field is an
\* integer
UniquePositions(lines) ==
    {lines[k].pos : k \in {m \in 1..Len(lines) : lines[m].nfields >= 2 /\ lines[m].pos_is_int}}

\* str(n) of an integer n >= 0, as its sequence of digit characters
RECURSIVE Str(_)
Str(n) ==
    LET d == <<"0", "1", "2", "3", "4", "5", "6", "7", "8", "9">>
    IN  IF n < 10 THEN <<d[n + 1]>> ELSE Str(n \div 10) \o <<d[(n % 10) + 1]>>

\* the eleven tab-separated fields write_stats puts on a line
write_stats(st) ==
    <<Str(st.pos), st.ref_base, Str(st.match_percent), Str(st.mismatch_percent),
      Str(st.insertion_percent), Str(st.deletion_percent), Str(st.A_percent),
      Str(st.G_percent), Str(st.C_percent), Str(st.T_percent), Str(st.depth)>>

\* the second pass over the lines: a row for every line whose
\* stats are not None
WriteRows(lines, exon_info, total_rows) ==
    LET st == [k \in 1..Len(lines) |->
                  parse_mpileup_line([lines[k] EXCEPT !.exon_info = exon_info,
                                                      !.total_rows = total_rows])]
        kept == SelectSeq(st, LAMBDA x : x # None)
    IN  [k \in 1..Len(kept) |-> write_stats(kept[k])]

\* what process_mpileup_file leaves behind: the data rows under the header
\* and its return value; no output file when the input file does not exist
process_mpileup_file(file) ==
    IF ~file.exists THEN [written |-> FALSE, rows |-> <<>>, success |-> FALSE]
    ELSE [written |-> TRUE,
          rows |-> WriteRows(file.lines,
                             ExonInfo(Cardinality(UniquePositions(file.lines))),
                             Len(file.lines)),
          success |-> TRUE]

\* success = process_mpileup_file(args.input, args.output, args.summary)
ProcessMpileupFile ==
    /\ pc = "pileup"
    /\ output' = process_mpileup_file(pileup)
    /\ pc' = "frequencies"
    /\ UNCHANGED <<report6, report7, exon6_data, exon7_data, result_df, decoderVars,
                   pileup, frequencies, args, phenotype_file, classifierVars,
                   dirVars, results, failed_samples>>

(***************************************************************************)
(* predict_abo_phenotype.py                                                 *)
(***************************************************************************)

\* int(text) and float(text) of a text of decimal digits
NumberOf(text) == IntOf(text, 1, Len(text) + 1)

\* format_number(value): the table holds whole percentages only, for which
\* abs(value - round(value)) < 1e-10 holds and the text is f"{int(value)}"
format_number(value) == Str(value)

\* the entry positions[pos] made from a table row: the columns are read by
\* name, the Depth column is not among them and "coverage" is set to 0
PositionRecord(row) ==
    [ref_base |-> row[2],
     match_percent |-> NumberOf(row[3]), mismatch_percent |-> NumberOf(row[4]),
     insertion_percent |-> NumberOf(row[5]), deletion_percent |-> NumberOf(row[6]),
     A_percent |-> NumberOf(row[7]), G_percent |-> NumberOf(row[8]),
     C_percent |-> NumberOf(row[9]), T_percent |-> NumberOf(row[10]),
     coverage |-> 0]

Max(S) == CHOOSE x \in S : \A y \in S : x >= y

\* a reader that rejects only the empty table
read_nucleotide_frequencies_noMinimum(file) ==
    IF ~file.written \/ Len(file.rows) = 0
    THEN [positions |-> <<>>, max_position |-> 0, empty_file |-> TRUE]
    ELSE LET pos_of == [k \in 1..Len(file.rows) |-> NumberOf(file.rows[k][1])]
             P == {pos_of[k] : k \in DOMAIN pos_of}
             last(q) == Max({k \in DOMAIN pos_of : pos_of[k] = q})
         IN  [positions |-> [q \in P |-> PositionRecord(file.rows[last(q)])],
              max_position |-> Max(P \cup {0}),
              empty_file |-> FALSE]

\* returns (positions, max_position, empty_file); ({}, 0, True) when the
\* file cannot be read or holds fewer than 134 rows; a position written
\* twice keeps its last row
read_nucleotide_frequencies(file) ==
    IF ~file.written \/ Len(file.rows) < 134
    THEN [positions |-> <<>>, max_position |-> 0, empty_file |-> TRUE]
    ELSE LET pos_of == [k \in 1..Len(file.rows) |-> NumberOf(file.rows[k][1])]
             P == {pos_of[k] : k \in DOMAIN pos_of}
             last(q) == Max({k \in DOMAIN pos_of : pos_of[k] = q})
         IN  [positions |-> [q \in P |-> PositionRecord(file.rows[last(q)])],
              max_position |-> Max(P \cup {0}),
              empty_file |-> FALSE]

\* no --coverage argument
NoCoverage == [given |-> FALSE, has_columns |-> FALSE, numreads |-> 0, covbases |-> 0]

\* read_coverage_file: numreads and covbases of the first row when both
\* columns are found, {} otherwise; `found` is the truth value of the dict
read_coverage_file(coverage) ==
    IF coverage.has_columns
    THEN [found |-> TRUE, numreads |-> coverage.numreads, covbases |-> coverage.covbases]
    ELSE [found |-> FALSE, numreads |-> 0, covbases |-> 0]

\* args.exon, else the exon named in the file name, else by max_position
ExonType(a, max_position) ==
    IF a.exon # "" THEN a.exon
    ELSE IF a.filename # "" THEN a.filename
    ELSE IF max_position > 135 THEN "exon7" ELSE "exon6"

\* f" (reads={numreads}, cov={covbases})" if numreads > 0 else ""
coverage_display(numreads, covbases) ==
    IF numreads > 0
    THEN <<" ", "(", "r", "e", "a", "d", "s", "=">> \o Str(numreads)
            \o <<",", " ", "c", "o", "v", "=">> \o Str(covbases) \o <<")">>
    ELSE <<>>

\* the lines of one position block: the marker line with the text after
\* its colon, the interpretation lines, the "Aligned Read Count:" line with
\* the text after its colon, the "Mat ... T" line and the eight numbers
WriteBlock(exon, pos, pos_data, numreads, covbases) ==
    [exon |-> exon,
     position |-> <<" ">> \o Str(pos),
     interpretation |-> IF pos = 431 THEN 3 ELSE 2,
     count |-> Str(pos_data.coverage) \o coverage_display(numreads, covbases),
     stats |-> <<format_number(pos_data.match_percent),
                 format_number(pos_data.mismatch_percent),
                 format_number(pos_data.insertion_percent),
                 format_number(pos_data.deletion_percent),
                 format_number(pos_data.A_percent),
                 format_number(pos_data.G_percent),
                 format_number(pos_data.C_percent),
                 format_number(pos_data.T_percent)>>]

\* open(args.output, "w").close()
EmptyFile == [exon |-> "", empty |-> TRUE, blocks |-> <<>>]

WriteReport(exon, order, positions, numreads, covbases) ==
    LET present == SelectSeq(order, LAMBDA q : q \in DOMAIN positions)
    IN  [exon |-> exon, empty |-> FALSE,
         blocks |-> [k \in 1..Len(present) |->
                        WriteBlock(exon, present[k], positions[present[k]],
                                   numreads, covbases)]]

\* the block of 22, then the blocks of those of 27, 29, 58 that are present
generate_exon6_report(positions, numreads, covbases) ==
    WriteReport("6", <<22, 27, 29, 58>>, positions, numreads, covbases)

\* the blocks of 422, 428, 429, 431, then the sorted subtype positions
generate_exon7_report(positions, numreads, covbases) ==
    WriteReport("7", <<422, 428, 429, 431, 93, 165, 272, 307, 371, 446, 680, 687>>,
                positions, numreads, covbases)

\* main after r = read_nucleotide_frequencies(args.input): the file it
\* leaves at args.output
main(r, a) ==
        IF r.empty_file \/ DOMAIN r.positions = {} THEN EmptyFile
        ELSE
          LET coverage_info == IF a.coverage.given THEN read_coverage_file(a.coverage)
                               ELSE [found |-> FALSE, numreads |-> 0, covbases |-> 0]
              numreads == coverage_info.numreads
              covbases == coverage_info.covbases
              positions == [q \in DOMAIN r.positions |->
                               IF coverage_info.found
                               THEN [r.positions[q] EXCEPT !.coverage = numreads]
                               ELSE r.positions[q]]
              exon_type == ExonType(a, r.max_position)
              panel == IF exon_type = "exon6" THEN {22, 27, 29, 58}
                       ELSE {422, 428, 429, 431, 93, 165, 687, 272, 307, 371, 446, 680}
              filtered_positions == [q \in DOMAIN positions \cap panel |-> positions[q]]
          IN  IF exon_type = "exon6"
              THEN generate_exon6_report(filtered_positions, numreads, covbases)
              ELSE generate_exon7_report(filtered_positions, numreads, covbases)

\* predict_abo_phenotype.py -i <frequency table> -o <report> [-c ...] [-e ...]
PredictAboPhenotype ==
    /\ pc = "frequencies"
    /\ frequencies' = read_nucleotide_frequencies(output)
    /\ phenotype_file' = main(frequencies', args)
    /\ pc' = "aggregate"
    /\ UNCHANGED <<report6, report7, exon6_data, exon7_data, result_df, decoderVars,
                   pileup, output, args, classifierVars, dirVars, results,
                   failed_samples>>

(***************************************************************************)
(* aggregate_abo_reports.py reading the report of predict_abo_phenotype.    *)
(***************************************************************************)

\* re.search(r":\s*(\d+)", line).group(1) as a number, for the text after
\* the colon of the line; -1 when the text does not start with a number
FirstNumber(text) ==
    LET i == CHOOSE k \in 1..(Len(text) + 1) :
                 /\ \A m \in 1..(k - 1) : text[m] = " "
                 /\ k > Len(text) \/ text[k] # " "
        j == AfterDigits(text, i)
    IN  IF j = i THEN -1 ELSE IntOf(text, i, j)

\* the line loop of parse_exon6 / parse_exon7 over the lines of a file: a
\* block counts when its marker line names the exon, the read count line
\* comes within the next ten lines and the statistics line has eight
\* numbers
ReadBlocks(file, exon) ==
    LET found == SelectSeq(file.blocks,
                           LAMBDA b : /\ b.exon = exon
                                      /\ FirstNumber(b.position) >= 0
                                      /\ b.interpretation + 2 < 10
                                      /\ FirstNumber(b.count) >= 0
                                      /\ Len(b.stats) >= 8)
        P == {FirstNumber(found[k].position) : k \in 1..Len(found)}
        at(q) == found[CHOOSE k \in 1..Len(found) : FirstNumber(found[k].position) = q]
    IN  [q \in P |->
            [Reads |-> FirstNumber(at(q).count),
             Mat |-> NumberOf(at(q).stats[1]), Mis |-> NumberOf(at(q).stats[2]),
             Ins |-> NumberOf(at(q).stats[3]), Del |-> NumberOf(at(q).stats[4]),
             A |-> NumberOf(at(q).stats[5]), G |-> NumberOf(at(q).stats[6]),
             C |-> NumberOf(at(q).stats[7]), T |-> NumberOf(at(q).stats[8])]]

\* the report of the sample's other exon: every block, all reads on the
\* reference
ReferenceReport(positions) == [q \in positions |-> BlockAt(q, 100, 100, 0)]

\* the directory name of the one sample of the file pipeline
SampleFilename ==
    <<"N", "G", "S", "_", "b", "a", "r", "c", "o", "d", "e", "0", "1">>

\* the reason recorded for a report of 0 bytes
EmptyReason(exon) ==
    IF exon = "exon6" THEN "Empty exon6 phenotype file (0 kb)"
    ELSE "Empty exon7 phenotype file (0 kb)"

\* process_file up to the creation of result_df: a sample whose report is
\* an empty file goes to failed_samples, with the reason of the exon
\* directory the report was published to
OpenReports ==
    /\ pc = "aggregate"
    /\ IF phenotype_file.empty
       THEN /\ \E exon \in {"exon6", "exon7"} :
                    failed_samples' =
                        Append(failed_samples,
                               [sample |-> SampleFilename, reason |-> EmptyReason(exon)])
            /\ pc' = "failed"
            /\ UNCHANGED <<report6, report7>>
       ELSE /\ pc' = "exon6"
            /\ UNCHANGED failed_samples
            /\ report6' = IF phenotype_file.exon = "6" THEN ReadBlocks(phenotype_file, "6")
                          ELSE ReferenceReport(Exon6Positions)
            /\ report7' = IF phenotype_file.exon = "7" THEN ReadBlocks(phenotype_file, "7")
                          ELSE ReferenceReport(Exon7Positions)
    /\ UNCHANGED <<exon6_data, exon7_data, result_df, decoderVars, fileVars,
                   classifierVars, dirVars, results>>

(***************************************************************************)
(* The pileup files a sample can come with.                                 *)
(***************************************************************************)

\* a short file has at most this many lines
MaxLines == 3

\* a line of a file: exon_info and total_rows are what the first pass finds
FileLine(nfields, pos_is_int, pos, ref_base, depth_is_int, depth, read_bases) ==
    [nfields |-> nfields, pos_is_int |-> pos_is_int, pos |-> pos, ref_base |-> ref_base,
     depth_is_int |-> depth_is_int, depth |-> depth, read_bases |-> read_bases,
     exon_info |-> "none", total_rows |-> 0]

\* lines that are cut short or carry text where a number belongs
MalformedLines ==
    {FileLine(1, FALSE, 0, "G", FALSE, 0, <<>>),
     FileLine(5, TRUE, 24, "G", TRUE, 5, <<".">>),
     FileLine(6, FALSE, 0, "G", TRUE, 5, <<".">>),
     FileLine(6, TRUE, 25, "G", FALSE, 0, <<".">>)}

\* lines with six fields, an integer position and an integer depth: with
\* reads, without reads, and on a reference base that is none of A, G, C, T
WellFormedLines ==
    {FileLine(6, TRUE, 22, "G", TRUE, 5, <<".", "a">>),
     FileLine(6, TRUE, 23, "t", TRUE, 0, <<"*">>),
     FileLine(7, TRUE, 26, "N", TRUE, 0, <<"*">>),
     FileLine(6, TRUE, 27, "N", TRUE, 5, <<".", "a">>)}

ShortFiles ==
    \E ls \in StringsUpTo(MaxLines, MalformedLines \cup WellFormedLines) :
        pileup = [exists |-> TRUE, lines |-> ls]

MissingFile == pileup = [exists |-> FALSE, lines |-> <<>>]

\* the positions the report writer looks up, in file order
Diagnostic6 == <<22, 27, 29, 58>>
Diagnostic7 == <<93, 165, 272, 307, 371, 422, 428, 429, 431, 446, 680, 687>>

\* the reference base at a diagnostic position
RefBaseAt(exon, pos) ==
    IF exon = "exon6"
    THEN CASE pos = 22 -> "G" [] pos = 27 -> "C" [] pos = 29 -> "T" [] pos = 58 -> "A"
    ELSE CASE pos = 93 -> "C" [] pos = 165 -> "C" [] pos = 272 -> "T" [] pos = 307 -> "G"
           [] pos = 371 -> "C" [] pos = 422 -> "C" [] pos = 428 -> "G" [] pos = 429 -> "G"
           [] pos = 431 -> "T" [] pos = 446 -> "A" [] pos = 680 -> "G" [] pos = 687 -> "C"

\* what the reads show at a position: the reference, another base, half and
\* half, a deleted base
ReadCodes ==
    {<<".", ".", ".", ".">>, <<"a", "a", "a", "a">>, <<".", ".", "g", "g">>,
     <<"*", "*", "*", "*">>}

\* a file of n lines over an amplicon: exon 6 has its diagnostic positions
\* among the positions 1..n, exon 7 has them before the positions from 700
\* on; the position `varied` has the read code c2 and the other diagnostic
\* positions c1; `extra` replaces the last line
AmpliconLines(exon, n, depth, c1, c2, varied, extra) ==
    LET diag == IF exon = "exon6" THEN Diagnostic6 ELSE Diagnostic7
        posOf(k) == IF exon = "exon6" THEN k
                    ELSE IF k <= Len(diag) THEN diag[k] ELSE 700 + k
        isDiag(q) == \E m \in 1..Len(diag) : diag[m] = q
    IN  [k \in 1..n |->
            IF k = n /\ extra # Idle THEN extra
            ELSE IF isDiag(posOf(k))
            THEN FileLine(6, TRUE, posOf(k), RefBaseAt(exon, posOf(k)), TRUE, depth,
                          IF posOf(k) = varied THEN c2 ELSE c1)
            ELSE FileLine(6, TRUE, posOf(k), "A", TRUE, depth, <<".">>)]

\* files around the 134 rows the report writer asks for, and around the
\* 130..140 positions that make the decoder take the file for exon 6
FileLengths == {133, 134, 135, 141}

AmpliconFiles ==
    \E exon \in {"exon6", "exon7"}, n \in FileLengths, depth \in {4, 250},
       c1 \in ReadCodes, c2 \in ReadCodes, v \in {22, 27, 422, 431, 93, 687},
       extra \in {Idle, FileLine(5, TRUE, 24, "G", TRUE, 5, <<".">>),
                  FileLine(6, TRUE, 900, "N", TRUE, 5, <<".", "a">>)} :
        /\ (exon = "exon6") <=> (v \in {22, 27})
        /\ (extra # Idle) => (c1 = c2 /\ depth = 4)
        /\ pileup = [exists |-> TRUE,
                     lines |-> AmpliconLines(exon, n, depth, c1, c2, v, extra)]

\* the command lines of predict_abo_phenotype: no option at all, the exon
\* given by --exon or by the file name, a coverage summary with both
\* columns (with and without reads) and one without them
DefaultArgs == [exon |-> "", filename |-> "", coverage |-> NoCoverage]

ArgsChoices(exon) ==
    {DefaultArgs,
     [exon |-> exon, filename |-> "", coverage |-> NoCoverage],
     [exon |-> "", filename |-> exon,
      coverage |-> [given |-> TRUE, has_columns |-> TRUE, numreads |-> 300, covbases |-> 135]],
     [exon |-> "", filename |-> "",
      coverage |-> [given |-> TRUE, has_columns |-> TRUE, numreads |-> 0, covbases |-> 0]],
     [exon |-> "", filename |-> "",
      coverage |-> [given |-> TRUE, has_columns |-> FALSE, numreads |-> 0, covbases |-> 0]]}

InitPipeline ==
    /\ pc = "pileup"
    /\ ShortFiles \/ MissingFile \/ AmpliconFiles
    /\ output = Idle
    /\ frequencies = Idle
    /\ \E exon \in {"exon6", "exon7"} :
          /\ args \in ArgsChoices(exon)
          /\ args # DefaultArgs =>
                /\ pileup.exists
                /\ Len(pileup.lines) = 135
                /\ (\E k \in 1..12 : pileup.lines[k].pos = 422) <=> exon = "exon7"
    /\ phenotype_file = Idle
    /\ report6 = NoData
    /\ report7 = NoData
    /\ exon6_data = NoData
    /\ exon7_data = NoData
    /\ result_df = EmptyResult
    /\ line = NoLine
    /\ stats = NoStats
    /\ sample = Idle /\ call = Idle
    /\ input_dir = Idle /\ listing = Idle /\ final_df = Idle
    /\ results = <<>> /\ failed_samples = <<>>

NextPipeline ==
    \/ ProcessMpileupFile
    \/ PredictAboPhenotype
    \/ OpenReports
    \/ ProcessExon6
    \/ ProcessExon7
    \/ AssignPhenotypeGenotype

SpecPipeline == InitPipeline /\ [][NextPipeline]_vars

(***************************************************************************)
(* A classifier on its own: one row of a parsed report, classified as the   *)
(* df.apply of parse_exon6 / parse_exon7 does.                              *)
(***************************************************************************)

Percent == 0..100

\* percentages around the thresholds 15, 20 and 80
ThresholdPercents == {0, 10, 15, 16, 20, 21, 40, 50, 60, 79, 80, 85, 100}

\* the row of position pos with x% of the high-threshold base, y% of the alt
\* base and the rest of the reads on a third base
SampleAt(pos, x, y) ==
    LET b == BlockAt(pos, 100, x, y)
    IN  [pos |-> pos, A |-> b.A, G |-> b.G, C |-> b.C, T |-> b.T, Del |-> b.Del]

InitClassifier ==
    /\ pc = "classify"
    /\ \E pos \in Exon6Positions \cup Exon7Positions, x \in Percent, y \in Percent :
        /\ x + y <= 100
        /\ pos \in {22, 422} \/ (x \in ThresholdPercents /\ y \in ThresholdPercents)
        /\ sample = SampleAt(pos, x, y)
    /\ call = Idle
    /\ input_dir = Idle /\ listing = Idle /\ final_df = Idle
    /\ results = Idle /\ failed_samples = Idle
    /\ report6 = NoData
    /\ report7 = NoData
    /\ exon6_data = NoData
    /\ exon7_data = NoData
    /\ result_df = EmptyResult
    /\ line = NoLine
    /\ stats = NoStats
    /\ pileup = Idle /\ output = Idle /\ frequencies = Idle /\ args = Idle
    /\ phenotype_file = Idle

\* df["Type"] = df.apply(lambda row: self.get_type...(...), axis=1), one row
Classify ==
    /\ pc = "classify"
    /\ call' = IF sample.pos \in Exon6Positions
               THEN get_type_exon6(sample.pos, sample.A, sample.G, sample.C, sample.T,
                                   sample.Del)
               ELSE get_type(sample.pos, sample.A, sample.G, sample.C, sample.T)
    /\ pc' = "classified"
    /\ UNCHANGED <<report6, report7, exon6_data, exon7_data, result_df, decoderVars,
                   fileVars, sample, dirVars, results, failed_samples>>

NextClassifier == Classify

SpecClassifier == InitClassifier /\ [][NextClassifier]_vars

(***************************************************************************)
(* assign_phenotype_genotype called on a frame of any shape: the frames of  *)
(* process_file, and frames that lack a primary column.                     *)
(***************************************************************************)

\* read counts on both sides of each reliability threshold
FrameReads == {0, 10, 30, 100, 600}

\* primary tuples: the fifteen resolved ones and tuples no branch matches
FrameTuples ==
    {PrimaryPatterns[i].t : i \in 1..Len(PrimaryPatterns)}
        \cup {<<"", "", "", "", "">>,
               <<"O1", "B", "O2", "B", "O3">>,
               <<"A or B or O", "A or O", "O and (A or B)", "B", "O and (A or B)">>}

FrameCell(type, reads) ==
    [Reads |-> reads, Mat |-> 0, Mis |-> 0, Ins |-> 0, Del |-> 0,
     A |-> 0, G |-> 0, C |-> 0, T |-> 0, Type |-> type]

\* the frame of process_file for a primary tuple, one read count at the
\* five primary positions and no subtype block
FullFrame(t, reads) ==
    [EmptyResult EXCEPT !.cells =
        [pos \in Exon6Positions \cup Exon7Positions |->
            IF pos = 22 THEN FrameCell(t[1], reads)
            ELSE IF pos = 422 THEN FrameCell(t[2], reads)
            ELSE IF pos = 428 THEN FrameCell(t[3], reads)
            ELSE IF pos = 429 THEN FrameCell(t[4], reads)
            ELSE IF pos = 431 THEN FrameCell(t[5], reads)
            ELSE FrameCell("", 0)]]

\* the frame without the columns of position p
WithoutPosition(df, p) ==
    [df EXCEPT !.cells = [pos \in DOMAIN df.cells \ {p} |-> df.cells[pos]]]

\* the frame without the column named f of position p
WithoutColumn(df, p, f) ==
    [df EXCEPT !.cells[p] = [g \in DOMAIN df.cells[p] \ {f} |-> df.cells[p][g]]]

\* the marker calls the classifiers give at the subtype positions
SubtypeCalls ==
    {"", "A1", "A2", "A3", "A1 or A3", "A2 or A3", "A1 or A2", "A1 and A2",
     "A1/A3 and A2", "A1 and (A2 or A3)", "(A1 or A2) and A3", "(A1 or A3) and A2"}

\* the frame of an AA sample whose subtype positions in DOMAIN q carry the
\* calls q
SubtypeFrame(q) ==
    LET df == FullFrame(PrimaryPatterns[13].t, 100)
    IN  [df EXCEPT !.cells = [pos \in DOMAIN df.cells |->
            IF pos \in DOMAIN q THEN FrameCell(q[pos], 100) ELSE df.cells[pos]]]

\* AA samples with calls at any two subtype positions, and at one position
\* of exon 6 together with 467 and 539
SubtypeFrames ==
    \/ \E S \in {X \in SUBSET SubtypePositions : Cardinality(X) = 2} :
          \E q \in [S -> SubtypeCalls] : result_df = SubtypeFrame(q)
    \/ \E q \in [{27, 467, 539} -> SubtypeCalls] : result_df = SubtypeFrame(q)

InitResolver ==
    /\ pc = "assign"
    /\ \/ \E t \in FrameTuples, reads \in FrameReads :
            \/ result_df = FullFrame(t, reads)
            \/ \E p \in PrimaryPositions :
                  \/ result_df = WithoutPosition(FullFrame(t, reads), p)
                  \/ \E f \in {"Type", "Reads"} :
                        result_df = WithoutColumn(FullFrame(t, reads), p, f)
       \/ SubtypeFrames
    /\ report6 = Idle /\ report7 = Idle
    /\ exon6_data = NoData /\ exon7_data = NoData
    /\ line = NoLine /\ stats = NoStats
    /\ pileup = Idle /\ output = Idle /\ frequencies = Idle /\ args = Idle
    /\ phenotype_file = Idle
    /\ sample = Idle /\ call = Idle
    /\ input_dir = Idle /\ listing = Idle /\ final_df = Idle
    /\ results = <<>> /\ failed_samples = <<>>

NextResolver == AssignPhenotypeGenotype

SpecResolver == InitResolver /\ [][NextResolver]_vars

(***************************************************************************)
(* Properties of the aggregator (specification Spec).                       *)
(***************************************************************************)

\* the block the sample's reports hold for a position
ReportBlock(pos) == IF pos \in Exon6Positions THEN report6[pos] ELSE report7[pos]

\* the five primary marker calls assign_phenotype_genotype reads
PrimaryTuple ==
    <<result_df.cells[22].Type, result_df.cells[422].Type, result_df.cells[428].Type,
      result_df.cells[429].Type, result_df.cells[431].Type>>

AllUnknown ==
    /\ result_df.Phenotype = "Unknown"
    /\ result_df.Genotype = "Unknown"
    /\ result_df.ExtendedGenotype = "Unknown"

\* C1: when a primary position has no block in the sample's report, the
\* sample ends with Phenotype = Genotype = ExtendedGenotype = "Unknown".
\* (Stated as claimed; the code violates it.)
C1_MissingPrimaryIsUnknown ==
    (pc = "done" /\ \E p \in PrimaryPositions : ReportBlock(p) = NoBlock)
        => AllUnknown

\* C2: the zero row that stands for a missing block classifies to "" at
\* each of the 16 required positions.  (Stated as claimed; the code violates
\* it at 422, 428, 429 and 431.)
C2_ZeroRecordIsNoCall ==
    pc \in {"assign", "done"} =>
        \A p \in Exon6Positions \cup Exon7Positions :
            ReportBlock(p) = NoBlock => result_df.cells[p].Type = ""

\* the results the claim lists, in the order of the 15 patterns:
\* <<Phenotype, Genotype, ExtendedGenotype>>
C3_Listed ==
    << <<"A", "AO", "AO1">>, <<"A", "AO", "AO2">>, <<"A", "AO", "AO3">>,
       <<"B", "BO", "BO1">>, <<"B", "BO", "BO2">>, <<"B", "BO", "BO3">>,
       <<"O", "OO", "O1O2">>, <<"O", "OO", "O1O3">>, <<"O", "OO", "O2O3">>,
       <<"O", "OO", "O1O1">>, <<"O", "OO", "O2O2">>, <<"O", "OO", "O3O3">>,
       <<"A", "AA", "AA">>, <<"B", "BB", "BB">>, <<"AB", "AB", "AB">> >>

C3_AO1Tuple ==
    <<"O1 and (A or B or O)", "A or O", "O and (A or B)", "A or O", "O and (A or B)">>

C3_ARefinements == {"AA", "A1A1", "A2A2", "A3A3", "A1A2", "A1A3", "A2A3"}

\* C3 as claimed: each of the 15 patterns returns the listed Phenotype,
\* Genotype and ExtendedGenotype, the AA pattern included.
C3_Original ==
    pc = "done" =>
        \A i \in 1..15 :
            PrimaryTuple = PrimaryPatterns[i].t =>
                <<result_df.Phenotype, result_df.Genotype, result_df.ExtendedGenotype>>
                    = C3_Listed[i]

\* C3 (amended): each of the 15 patterns returns the listed Phenotype and
\* Genotype; the ExtendedGenotype is the listed one for the 14 patterns other
\* than AA, and for the AA pattern it is AA or one of its A-subtype
\* refinements, AA itself when no subtype position has a call; the AO1 tuple
\* gives A / AO / AO1.
C3_PatternResults ==
    pc = "done" =>
        /\ \A i \in 1..15 :
              PrimaryTuple = PrimaryPatterns[i].t =>
                /\ result_df.Phenotype = C3_Listed[i][1]
                /\ result_df.Genotype = C3_Listed[i][2]
                /\ C3_Listed[i][3] # "AA" => result_df.ExtendedGenotype = C3_Listed[i][3]
                /\ C3_Listed[i][3] = "AA" =>
                      /\ result_df.ExtendedGenotype \in C3_ARefinements
                      /\ (\A p \in SubtypePositions : result_df.cells[p].Type = "")
                            => result_df.ExtendedGenotype = "AA"
        /\ PrimaryTuple = C3_AO1Tuple =>
              /\ result_df.Phenotype = "A"
              /\ result_df.Genotype = "AO"
              /\ result_df.ExtendedGenotype = "AO1"

C3_Witness ==
    /\ pc = "done"
    /\ PrimaryTuple = C3_AO1Tuple
    /\ result_df.Phenotype = "A"
    /\ result_df.Genotype = "AO"
    /\ result_df.ExtendedGenotype = "AO1"

\* C4: a primary 5-tuple that equals none of the 15 patterns resolves to
\* Unknown / Unknown / Unknown; so does the all-empty tuple.
C4_UnmatchedIsUnknown ==
    pc = "done" =>
        /\ (\A i \in 1..15 : PrimaryTuple # PrimaryPatterns[i].t) => AllUnknown
        /\ PrimaryTuple = <<"", "", "", "", "">> => AllUnknown

C4_Witness ==
    /\ pc = "done"
    /\ PrimaryTuple = <<"", "", "", "", "">>
    /\ AllUnknown

\* the nonzero read counts of the five primary positions
C5_Counted == {result_df.cells[p].Reads : p \in PrimaryPositions} \ {0}

\* the grade of C5 with Low reaching up to lowMax
C5_Grade(lowMax) ==
    IF C5_Counted = {} THEN "Unknown (no read data)"
    ELSE IF \E n \in C5_Counted : n <= 20 THEN "Very Low(<=20 reads)"
    ELSE IF \E n \in C5_Counted : n <= lowMax THEN "Low (<=50 reads)"
    ELSE IF \A n \in C5_Counted : n >= 500 THEN "Robust(>=500 reads)"
    ELSE "Normal"

\* C5 as claimed: Low is a minimum nonzero primary read count of 21..40.
C5_Original == pc = "done" => result_df.Reliability = C5_Grade(40)

\* C5 (amended): Reliability is graded from the minimum nonzero read count of
\* the five primary positions only: VeryLow when it is <= 20, Low when it is
\* 21..49, Robust when it is >= 500, Normal otherwise, Unknown when no
\* primary position has a nonzero read count.
C5_ReliabilityGrades == pc = "done" => result_df.Reliability = C5_Grade(49)

C5_Witness ==
    /\ pc = "done"
    /\ result_df.Reliability = "Low (<=50 reads)"
    /\ \E p \in PrimaryPositions : result_df.cells[p].Reads = 49
    /\ \E p \in PrimaryPositions : result_df.cells[p].Reads = 0
    /\ \E p \in SubtypePositions : result_df.cells[p].Reads = 5
    /\ result_df.Genotype = "Unknown"

(***************************************************************************)
(* Properties of the decoder (specification SpecDecoder).                   *)
(***************************************************************************)

\* the line has the six fields and the integer position and depth the
\* function needs
WellFormed(l) == l.nfields >= 6 /\ l.pos_is_int /\ l.depth_is_int

IsRecord(r) == r # None /\ r # Raised

AllZero(r) ==
    /\ IsRecord(r)
    /\ r.match_percent = 0 /\ r.mismatch_percent = 0
    /\ r.insertion_percent = 0 /\ r.deletion_percent = 0
    /\ r.A_percent = 0 /\ r.G_percent = 0 /\ r.C_percent = 0 /\ r.T_percent = 0
    /\ r.depth = 0

TotalEvents(ev) == ev.matches + ev.mismatches + ev.insertions + ev.deletions

\* C6 as claimed: the call never raises, and any line whose depth field is 0
\* (a line of four fields or more has one), or whose read-base code decodes
\* to no event, gives an all-zero record.
C6_Original ==
    pc = "parsed" =>
        /\ stats.ret # Raised
        /\ (line.nfields >= 4 /\ line.depth_is_int /\ line.depth = 0) => AllZero(stats.ret)
        /\ (WellFormed(line) /\ TotalEvents(stats.events) = 0) => AllZero(stats.ret)

\* C6 (amended): parse_mpileup_line never raises for any line, and for any
\* line with at least 6 tab-separated fields and an integer position and
\* depth whose depth is 0, or whose read-base code decodes to zero events,
\* it returns a record in which all eight percentages and the depth are 0.
C6_NeverRaisesZeroRecord ==
    pc = "parsed" =>
        /\ stats.ret # Raised
        /\ (WellFormed(line) /\ line.depth = 0) => AllZero(stats.ret)
        /\ (WellFormed(line) /\ TotalEvents(stats.events) = 0) => AllZero(stats.ret)

C6_Witness ==
    /\ pc = "parsed"
    /\ WellFormed(line)
    /\ line.depth > 0
    /\ line.read_bases = <<"$">>
    /\ AllZero(stats.ret)

\* the characters that are one event, or none, on their own
C7_Simple == {".", ",", "A", "C", "G", "T", "a", "c", "g", "t", "*"}

\* what a code of such characters alone counts, read off character by
\* character
C7_SimpleCount(u, ref_base) ==
    LET at(chars) == Cardinality({k \in 1..Len(u) : u[k] \in chars})
        low(b) == CASE b = "A" -> "a" [] b = "G" -> "g" [] b = "C" -> "c" [] b = "T" -> "t"
    IN  [matches |-> at({".", ","}),
         mismatches |-> at({"A", "C", "G", "T", "a", "c", "g", "t"}),
         insertions |-> 0,
         deletions |-> at({"*"}),
         base_counts |-> [b \in {"A", "G", "C", "T"} |->
                            at({b, low(b)}) + (IF b = ref_base THEN at({".", ","}) ELSE 0)],
         key_error |-> FALSE]

C7_Add(e, f) ==
    [matches |-> e.matches + f.matches, mismatches |-> e.mismatches + f.mismatches,
     insertions |-> e.insertions + f.insertions, deletions |-> e.deletions + f.deletions,
     base_counts |-> [b \in {"A", "G", "C", "T"} |-> e.base_counts[b] + f.base_counts[b]],
     key_error |-> e.key_error \/ f.key_error]

C7_One(sign) ==
    [NoEvents EXCEPT !.insertions = IF sign = "+" THEN 1 ELSE 0,
                     !.deletions = IF sign = "-" THEN 1 ELSE 0]

\* the first index of r that holds no simple character (Len(r) + 1 if none)
C7_TokenAt(r) ==
    IF \E k \in 1..Len(r) : r[k] \notin C7_Simple
    THEN CHOOSE k \in 1..Len(r) :
            r[k] \notin C7_Simple /\ \A m \in 1..(k - 1) : r[m] \in C7_Simple
    ELSE Len(r) + 1

\* the first index after k that holds no digit (Len(r) + 1 if none)
C7_LengthEnd(r, k) ==
    IF \E j \in (k + 1)..Len(r) : r[j] \notin Digits
    THEN CHOOSE j \in (k + 1)..Len(r) :
            r[j] \notin Digits /\ \A m \in (k + 1)..(j - 1) : r[m] \in Digits
    ELSE Len(r) + 1

\* the number written by the one or two digits r[i..j-1]
C7_Number(r, i, j) ==
    IF j - i = 1 THEN DigitValue(r[i]) ELSE 10 * DigitValue(r[i]) + DigitValue(r[i + 1])

\* C7: an indel token +<n><n chars> (-<n><n chars>) is exactly one insertion
\* (deletion), for one-digit and two-digit n; the n characters after the
\* digits count as nothing and scanning resumes right after them: the
\* counters of the whole code are those of the characters before the token,
\* plus the one indel, plus those of the code that follows the n characters.
C7_IndelTokenAtomic ==
    (pc = "parsed" /\ WellFormed(line) /\ line.depth > 0 /\ line.ref_base \in {"A", "G", "C", "T"}) =>
        LET r == line.read_bases
            k == C7_TokenAt(r)
        IN  (k < Len(r) /\ r[k] \in {"+", "-"} /\ r[k + 1] \in Digits) =>
                LET j == C7_LengthEnd(r, k)
                    n == C7_Number(r, k + 1, j)
                    body == SubSeq(r, j, IF j + n - 1 > Len(r) THEN Len(r) ELSE j + n - 1)
                    rest == SubSeq(r, j + n, Len(r))
                IN  (j - k <= 3 /\ \A m \in 1..Len(body) : body[m] \notin {"^", "$"}) =>
                        stats.events =
                            C7_Add(C7_Add(C7_SimpleCount(SubSeq(r, 1, k - 1), line.ref_base),
                                          C7_One(r[k])),
                                   CountEvents(rest, line.ref_base))

C7_Witness ==
    /\ pc = "parsed"
    /\ line.read_bases = <<".", "+", "1", "2">> \o IndelBody(12) \o <<",">>
    /\ stats.events.matches = 2
    /\ stats.events.insertions = 1
    /\ stats.events.mismatches = 0
    /\ stats.events.deletions = 0

\* r[k] is the character that follows a read-start marker
RECURSIVE C8_IsFollower(_, _)
C8_IsFollower(r, k) == k > 1 /\ r[k - 1] = "^" /\ ~C8_IsFollower(r, k - 1)

\* r[k] is a read-start marker with a character after it, the character
\* after such a marker, or a read-end marker
C8_IsMarkup(r, k) ==
    \/ C8_IsFollower(r, k)
    \/ r[k] = "^" /\ k < Len(r)
    \/ r[k] = "$"

\* r without its markup characters
C8_Payload(r) ==
    LET keep == {k \in 1..Len(r) : ~C8_IsMarkup(r, k)}
        nth(m) == CHOOSE k \in keep : Cardinality({j \in keep : j <= k}) = m
    IN  [m \in 1..Cardinality(keep) |-> r[nth(m)]]

\* C8: every read-start marker goes with the one character after it,
\* whatever that is, and every read-end marker goes: the counters are those
\* of the code without these characters, and in a code without indel signs
\* and digits they are the plain count of the characters that are left.
C8_MarkersNotCounted ==
    (pc = "parsed" /\ WellFormed(line) /\ line.depth > 0 /\ line.ref_base \in {"A", "G", "C", "T"}) =>
        LET r == line.read_bases
            left == C8_Payload(r)
        IN  /\ stats.events = ScanFrom(left, line.ref_base, 1, NoEvents)
            /\ (\A k \in 1..Len(left) : left[k] \in C7_Simple \cup {"^"}) =>
                  stats.events = C7_SimpleCount(left, line.ref_base)

C8_Witness ==
    /\ pc = "parsed"
    /\ line.read_bases = <<"^", ".", "A">>
    /\ line.ref_base = "G"
    /\ stats.events.matches = 0
    /\ stats.events.mismatches = 1

\* exclude-indels mode applies to the line and the call got to apply it
ExcludeMode ==
    /\ WellFormed(line)
    /\ line.depth > 0
    /\ IsRecord(stats.ret)
    /\ TotalEvents(stats.events) > 0
    /\ ~IncludeIndels(line.pos, line.depth, line.exon_info, line.total_rows)

NucleotideSum(r) == r.A_percent + r.G_percent + r.C_percent + r.T_percent

\* C9 as claimed: every record decoded in exclude-indels mode from a line of
\* depth > 0 has insertion and deletion percentages 0 and A+G+C+T = 100.
C9_Original ==
    (pc = "parsed" /\ ExcludeMode) =>
        /\ stats.ret.insertion_percent = 0
        /\ stats.ret.deletion_percent = 0
        /\ NucleotideSum(stats.ret) = 100

BasePercent(r, b) ==
    CASE b = "A" -> r.A_percent [] b = "G" -> r.G_percent
      [] b = "C" -> r.C_percent [] b = "T" -> r.T_percent

\* C9 (amended): for every pileup record with depth > 0 and at least one
\* match or mismatch event decoded in exclude-indels mode, the insertion and
\* deletion percentages are 0 and A% + G% + C% + T% is exactly 100, the
\* rounding remainder having been added to the reference base's percentage
\* (no other base is above its share of the matches and mismatches).
C9_ExcludeIndelsSum ==
    (pc = "parsed" /\ ExcludeMode /\ stats.events.matches + stats.events.mismatches > 0) =>
        LET d == stats.events.matches + stats.events.mismatches
            ref == Upper(line.ref_base)
        IN  /\ stats.ret.insertion_percent = 0
            /\ stats.ret.deletion_percent = 0
            /\ NucleotideSum(stats.ret) = 100
            /\ \A b \in {"A", "G", "C", "T"} \ {ref} :
                  BasePercent(stats.ret, b) * d <= 100 * stats.events.base_counts[b]
            /\ BasePercent(stats.ret, ref) * d + d > 100 * stats.events.base_counts[ref]

C9_Witness ==
    /\ pc = "parsed"
    /\ ExcludeMode
    /\ stats.events.matches = 3
    /\ stats.events.mismatches = 21
    /\ stats.events.deletions > 0
    /\ stats.ret.G_percent = 13
    /\ stats.ret.A_percent = 87
    /\ stats.ret.deletion_percent = 0

\* C10: every record decoded in include-indels mode with at least one event
\* has each of its six percentages equal to floor(100 * count / events),
\* their sum within 95..100, and Match% + Mismatch% + Insertion% + Deletion%
\* equal to that sum, Match% being the reference base's percentage and
\* Mismatch% the sum of the three others.  (Stated as claimed; the code
\* violates the floor.)
C10_IncludeIndelsFloor ==
    (pc = "parsed" /\ WellFormed(line) /\ line.depth > 0 /\ IsRecord(stats.ret)
        /\ TotalEvents(stats.events) > 0
        /\ IncludeIndels(line.pos, line.depth, line.exon_info, line.total_rows)) =>
        LET d == TotalEvents(stats.events)
            r == stats.ret
            six == NucleotideSum(r) + r.insertion_percent + r.deletion_percent
            ref == Upper(line.ref_base)
        IN  /\ \A b \in {"A", "G", "C", "T"} :
                  BasePercent(r, b) = (100 * stats.events.base_counts[b]) \div d
            /\ r.insertion_percent = (100 * stats.events.insertions) \div d
            /\ r.deletion_percent = (100 * stats.events.deletions) \div d
            /\ six >= 95 /\ six <= 100
            /\ r.match_percent = BasePercent(r, ref)
            /\ r.mismatch_percent = NucleotideSum(r) - BasePercent(r, ref)
            /\ r.match_percent + r.mismatch_percent + r.insertion_percent
                  + r.deletion_percent = six

(***************************************************************************)
(* Properties of the file pipeline (specification SpecPipeline).            *)
(***************************************************************************)

\* the positions, as written, of the lines of ls that have six fields, an
\* integer position and an integer depth
C11_WellFormedPositions(ls) ==
    LET good == SelectSeq(ls, WellFormed)
    IN  [k \in 1..Len(good) |-> Str(good[k].pos)]

\* C11: process_mpileup_file on a file with malformed lines does not abort
\* and returns success; it writes no row for a malformed line and one row,
\* in file order, for every well-formed line.
C11_MalformedSkipped ==
    (pc # "pileup" /\ pileup.exists) =>
        /\ output.success
        /\ [k \in 1..Len(output.rows) |-> output.rows[k][1]]
              = C11_WellFormedPositions(pileup.lines)

(***************************************************************************)
(* Properties of the classifiers (specification SpecClassifier).            *)
(***************************************************************************)

\* the documented table: per position the base of the high threshold and
\* its label, the base of the alt threshold and its label, the label of the
\* ambiguous band, the test that comes before the band test ("sum": the two
\* add up to 20 or more; "diff": the two are within 20 of each other;
\* "none") and the lower ends of the band for the two bases
C12_Row(hi, hiLabel, alt, altLabel, bothLabel, first, lowHi, lowAlt) ==
    [hi |-> hi, hiLabel |-> hiLabel, alt |-> alt, altLabel |-> altLabel,
     bothLabel |-> bothLabel, first |-> first, lowHi |-> lowHi, lowAlt |-> lowAlt]

C12_Table(pos) ==
    CASE pos = 22 -> C12_Row("G", "A or B or O", "Del", "O1", "O1 and (A or B or O)", "sum", 20, 20)
      [] pos = 27 -> C12_Row("C", "A1 or A3", "T", "A2", "A1/A3 and A2", "none", 20, 20)
      [] pos = 29 -> C12_Row("T", "A1 or A3", "C", "A2", "A1/A3 and A2", "none", 20, 20)
      [] pos = 58 -> C12_Row("A", "A1 or A3", "G", "A2", "A1/A3 and A2", "none", 20, 20)
      [] pos = 422 -> C12_Row("C", "A or O", "A", "B", "(A or O) and B", "diff", 15, 15)
      [] pos = 428 -> C12_Row("G", "O and (A or B)", "A", "O2", "O2 and (O or A or B)", "diff", 15, 15)
      [] pos = 429 -> C12_Row("G", "A or O", "C", "B", "(A or O) and B", "diff", 15, 20)
      [] pos = 431 -> C12_Row("T", "O and (A or B)", "G", "O3", "O3 and (O or A or B)", "diff", 20, 20)
      [] pos = 467 -> C12_Row("C", "A1", "T", "A2 or A3", "A1 and (A2 or A3)", "none", 20, 20)
      [] pos = 539 -> C12_Row("C", "A1 or A2", "T", "A3", "(A1 or A2) and A3", "none", 20, 20)
      [] pos = 646 -> C12_Row("T", "A1", "A", "A2", "A1 and A2", "none", 20, 20)
      [] pos = 681 -> C12_Row("G", "A1 or A2", "A", "A3", "(A1 or A2) and A3", "none", 20, 20)
      [] pos = 745 -> C12_Row("C", "A1 or A2", "T", "A3", "(A1 or A2) and A3", "none", 20, 20)
      [] pos = 820 -> C12_Row("A", "A1 or A2", "C", "A3", "(A1 or A2) and A3", "none", 20, 20)
      [] pos = 1054 -> C12_Row("G", "A1 or A3", "A", "A2", "(A1 or A3) and A2", "none", 20, 20)
      [] pos = 1061 -> C12_Row("C", "A1", "T", "A2 or A3", "A1 and (A2 or A3)", "none", 20, 20)

\* the label of the first predicate of the row that the percentages satisfy
C12_FirstMatch(row, x, y) ==
    IF x >= 80 THEN row.hiLabel
    ELSE IF y >= 80 THEN row.altLabel
    ELSE IF row.first = "sum" /\ x + y >= 20 THEN row.bothLabel
    ELSE IF row.first = "diff" /\ x - y <= 20 /\ y - x <= 20 THEN row.bothLabel
    ELSE IF row.lowHi < x /\ x < 80 /\ row.lowAlt < y /\ y < 80 THEN row.bothLabel
    ELSE ""

\* C12: each classifier returns the label of the first satisfied predicate
\* of its position's ordered table (high threshold, alt threshold, ambiguous
\* band) and "" when none is satisfied; at exon 7 position 422: C >= 80 ->
\* "A or O"; else A >= 80 -> "B"; else |A - C| <= 20 or (15 < A < 80 and
\* 15 < C < 80) -> "(A or O) and B"; else "".
C12_FirstPredicateWins ==
    pc = "classified" =>
        /\ call = C12_FirstMatch(C12_Table(sample.pos), sample[C12_Table(sample.pos).hi],
                                 sample[C12_Table(sample.pos).alt])
        /\ sample.pos = 422 =>
              call = IF sample.C >= 80 THEN "A or O"
                     ELSE IF sample.A >= 80 THEN "B"
                     ELSE IF \/ (sample.A - sample.C <= 20 /\ sample.C - sample.A <= 20)
                             \/ (15 < sample.A /\ sample.A < 80 /\ 15 < sample.C /\ sample.C < 80)
                          THEN "(A or O) and B"
                     ELSE ""

\* the band test decides: A = 16 and C = 37 are more than 20 apart
C12_Witness ==
    /\ pc = "classified"
    /\ sample.pos = 422
    /\ sample.A = 16
    /\ sample.C = 37
    /\ call = "(A or O) and B"

\* C13: at exon 6 position 22, for G + Del <= 100: G >= 80 gives
\* "A or B or O", Del >= 80 gives "O1", otherwise the call is
\* "O1 and (A or B or O)" exactly when G + Del >= 20 and "" exactly when
\* G + Del < 20; the both-in-(20,80) test never decides, since every input
\* that satisfies it has G + Del >= 20.
C13_Position22 ==
    (pc = "classified" /\ sample.pos = 22 /\ sample.G + sample.Del <= 100) =>
        /\ call = IF sample.G >= 80 THEN "A or B or O"
                  ELSE IF sample.Del >= 80 THEN "O1"
                  ELSE IF sample.G + sample.Del >= 20 THEN "O1 and (A or B or O)"
                  ELSE ""
        /\ (20 < sample.Del /\ sample.Del < 80 /\ 20 < sample.G /\ sample.G < 80)
              => sample.G + sample.Del >= 20

\* 19 + 1 reaches the sum test with neither percentage in (20,80)
C13_Witness ==
    /\ pc = "classified"
    /\ sample.pos = 22
    /\ sample.G = 19
    /\ sample.Del = 1
    /\ call = "O1 and (A or B or O)"

(***************************************************************************)
(* More properties of the aggregator (specification Spec).                  *)
(***************************************************************************)

\* every marker call a classifier can return, and the "" of no call
Calls ==
    {""} \cup UNION {{C12_Table(p).hiLabel, C12_Table(p).altLabel, C12_Table(p).bothLabel} :
                        p \in Exon6Positions \cup Exon7Positions}

\* the table `data` has a row with a call for each of the positions, and the
\* result column of each holds that row
C14_Recovered(data, positions) ==
    \A p \in positions :
        /\ p \in DOMAIN data
        /\ data[p].Type \in Calls
        /\ result_df.cells[p] = data[p]

\* C14: whatever the report file holds (no block at all, a block that makes
\* the parsing raise), the table parse_exon6 / parse_exon7 returns has a row
\* with a Type for every required position of its exon, and the lookup of
\* each of the 16 positions in process_file finds its row.
C14_EveryPositionHasRow ==
    /\ pc \in {"exon7", "assign", "done"} => C14_Recovered(exon6_data, Exon6Positions)
    /\ pc \in {"assign", "done"} => C14_Recovered(exon7_data, Exon7Positions)

\* an exon 6 report without blocks and an exon 7 report that raises
C14_Witness ==
    /\ pc = "assign"
    /\ \A p \in Exon6Positions : report6[p] = NoBlock
    /\ \E p \in Exon7Positions : report7[p] = BadBlock
    /\ \A p \in Exon7Positions : exon7_data[p].Type = ""
    /\ C14_Recovered(exon6_data, Exon6Positions)
    /\ C14_Recovered(exon7_data, Exon7Positions)

\* ---- C15 ----------------------------------------------------------------
\* the calls the eleven subtype columns are rewritten with
C15_Calls == {"", "A1", "A2", "A3", "A1 or A3", "A2 or A3", "A1 or A2",
              "A1 and (A2 or A3)", "(A1 or A2) and A3"}

\* df with the Type of every subtype column in S replaced by the call c
C15_Rewritten(df, S, c) ==
    [df EXCEPT !.cells = [p \in DOMAIN df.cells |->
        IF p \in S THEN [df.cells[p] EXCEPT !.Type = c] ELSE df.cells[p]]]

C15_Outcome(df) == <<df.Phenotype, df.Genotype, df.ExtendedGenotype>>

C15_NonAA ==
    /\ pc = "done"
    /\ <<result_df.cells[22].Type, result_df.cells[422].Type,
          result_df.cells[428].Type, result_df.cells[429].Type,
          result_df.cells[431].Type>>
            # <<"A or B or O", "A or O", "O and (A or B)", "A or O", "O and (A or B)">>

\* C15: when the primary tuple is not the AA tuple, Phenotype, Genotype and
\* ExtendedGenotype do not depend on the eleven subtype calls: rewriting
\* all of them, or any one of them, with any call leaves the three fields
\* as they are
C15_SubtypeOnlyForAA ==
    C15_NonAA =>
        \A c \in C15_Calls :
            \A S \in {SubtypePositions} \cup {{p} : p \in SubtypePositions} :
                C15_Outcome(assign_phenotype_genotype(C15_Rewritten(result_df, S, c)))
                    = C15_Outcome(result_df)

\* a resolved non-AA sample, whose subtype calls would give A1A3 under AA
C15_Witness ==
    /\ C15_NonAA
    /\ result_df.Genotype \notin {"Unknown", "AA", "Error"}
    /\ SubtypeGenotype(C15_Rewritten(result_df, SubtypePositions, "A3")) # "AA"

\* ---- C16 ----------------------------------------------------------------
C16_AA ==
    /\ pc = "done"
    /\ <<result_df.cells[22].Type, result_df.cells[422].Type,
          result_df.cells[428].Type, result_df.cells[429].Type,
          result_df.cells[431].Type>>
            = <<"A or B or O", "A or O", "O and (A or B)", "A or O", "O and (A or B)">>

\* the evidence flags that are set, by name
C16_FlagsSet ==
    LET f == SubtypeFlags(result_df)
    IN  {n \in {"A1", "A2", "A3"} :
            \/ n = "A1" /\ f.a1
            \/ n = "A2" /\ f.a2
            \/ n = "A3" /\ f.a3}

C16_Pair(x, y) == IF x \o y \in {"A1A2", "A1A3", "A2A3"} THEN x \o y ELSE y \o x

\* C16: for the AA primary call, no flag gives "AA" (so does a sample whose
\* eleven subtype calls are all ""), one flag gives its homozygous
\* genotype, two flags give their heterozygous pair, three flags give one
\* of the three pairs; Phenotype is A and Genotype is AA throughout
C16_ExtendedGenotypeFromFlags ==
    C16_AA =>
        /\ result_df.Phenotype = "A"
        /\ result_df.Genotype = "AA"
        /\ LET F == C16_FlagsSet
               n == Cardinality(F)
           IN  /\ n = 0 => result_df.ExtendedGenotype = "AA"
               /\ n = 1 => \A x \in F : result_df.ExtendedGenotype = x \o x
               /\ n = 2 => \A x, y \in F :
                               x # y => result_df.ExtendedGenotype = C16_Pair(x, y)
               /\ n = 3 => result_df.ExtendedGenotype \in {"A1A2", "A1A3", "A2A3"}
        /\ (\A p \in SubtypePositions : result_df.cells[p].Type = "")
                => result_df.ExtendedGenotype = "AA"

\* an AA sample with exactly two flags, A2 and A3
C16_Witness ==
    /\ C16_AA
    /\ C16_FlagsSet = {"A2", "A3"}
    /\ result_df.ExtendedGenotype = "A2A3"

(***************************************************************************)
(* Properties of the resolver alone (specification SpecResolver).           *)
(***************************************************************************)

C17_Fields == {result_df.Phenotype, result_df.Genotype, result_df.ExtendedGenotype}

\* a primary position's Type or #Reads column is absent
C17_Structural ==
    \E p \in PrimaryPositions :
        \/ p \notin DOMAIN result_df.cells
        \/ "Type" \notin DOMAIN result_df.cells[p]
        \/ "Reads" \notin DOMAIN result_df.cells[p]

C17_AllOrNothing ==
    \/ C17_Fields = {"Error"}
    \/ C17_Fields = {"Unknown"}
    \/ C17_Fields \cap {"Error", "Unknown", "nan"} = {}

\* C17 as stated: on a structural failure all four output fields,
\* Reliability included, are "Error"
C17_Original ==
    pc = "done" =>
        /\ C17_AllOrNothing
        /\ C17_Structural =>
                /\ C17_Fields = {"Error"}
                /\ result_df.Reliability = "Error"

\* C17: the call never leaves the three fields partially updated (they are
\* all "Error", all "Unknown", or all resolved), and on a structural failure
\* the three fields are "Error" and Reliability is "Error processing"
C17_NeverPartiallyUpdated ==
    pc = "done" =>
        /\ C17_AllOrNothing
        /\ C17_Structural =>
                /\ C17_Fields = {"Error"}
                /\ result_df.Reliability = "Error processing"
        /\ ~C17_Structural => "Error" \notin C17_Fields

\* a frame without the #Reads column of position 429 has been resolved
C17_Witness ==
    /\ pc = "done"
    /\ 429 \in DOMAIN result_df.cells
    /\ "Reads" \notin DOMAIN result_df.cells[429]
    /\ result_df.Phenotype = "Error"

\* ---- C27 ----------------------------------------------------------------
C27_PhenotypeOf(g) ==
    CASE g \in {"AA", "AO"} -> "A"
      [] g \in {"BB", "BO"} -> "B"
      [] g = "AB" -> "AB"
      [] g = "OO" -> "O"
      [] g = "Unknown" -> "Unknown"
      [] g = "Error" -> "Error"
      [] OTHER -> "none"

C27_RefinementsOf(g) ==
    CASE g \in {"AO", "BO"} -> {g \o "1", g \o "2", g \o "3"}
      [] g = "OO" -> {x \o y : x, y \in {"O1", "O2", "O3"}}
      [] g = "AA" -> {"AA", "A1A1", "A2A2", "A3A3", "A1A2", "A1A3", "A2A3"}
      [] OTHER -> {g}

\* C27: in every result the Genotype is one of the eight values, the
\* Phenotype is the one the Genotype determines, and the ExtendedGenotype
\* is a refinement of the Genotype
C27_GenotypeDeterminesPhenotype ==
    pc = "done" =>
        /\ result_df.Genotype \in {"AA", "AO", "BB", "BO", "AB", "OO", "Unknown", "Error"}
        /\ result_df.Phenotype = C27_PhenotypeOf(result_df.Genotype)
        /\ result_df.ExtendedGenotype \in C27_RefinementsOf(result_df.Genotype)

\* a sample of two different O alleles has been resolved
C27_Witness ==
    /\ pc = "done"
    /\ result_df.Phenotype = "O"
    /\ result_df.Genotype = "OO"
    /\ result_df.ExtendedGenotype = "O2O3"

\* ---- C28 ----------------------------------------------------------------
C28_AA ==
    /\ pc = "done"
    /\ HasPrimaryColumns(result_df)
    /\ <<result_df.cells[22].Type, result_df.cells[422].Type,
         result_df.cells[428].Type, result_df.cells[429].Type,
         result_df.cells[431].Type>>
            = <<"A or B or O", "A or O", "O and (A or B)", "A or O", "O and (A or B)">>

\* the call of one of 539, 681, 745, 820 contains "A3"
C28_A3Corroborated ==
    \E p \in {539, 681, 745, 820} : In("A3", result_df.cells[p].Type)

\* C28: in the refinement of an AA sample the A3 flag is set only when the
\* call of one of 539, 681, 745, 820 contains "A3"; so a sample with all
\* three flags ends with "A1A3" or "A2A3", never with "A1A2"
C28_A3NeedsCorroboration ==
    C28_AA =>
        LET f == SubtypeFlags(result_df)
        IN  /\ f.a3 => C28_A3Corroborated
            /\ (f.a1 /\ f.a2 /\ f.a3) => result_df.ExtendedGenotype \in {"A1A3", "A2A3"}

\* an AA sample with the three flags set: A2 at 27, A1 at 467, A3 at 539
C28_Witness ==
    /\ C28_AA
    /\ result_df.cells[27].Type = "A2"
    /\ result_df.cells[467].Type = "A1"
    /\ result_df.cells[539].Type = "A3"
    /\ SubtypeFlags(result_df).a1 /\ SubtypeFlags(result_df).a2 /\ SubtypeFlags(result_df).a3
    /\ result_df.ExtendedGenotype = "A1A3"

\* ---- C29 ----------------------------------------------------------------
\* df with the Type of Exon7_pos1054 replaced by the call c
C29_With1054(df, c) ==
    [df EXCEPT !.cells = [p \in DOMAIN df.cells |->
        IF p = 1054 THEN [df.cells[p] EXCEPT !.Type = c] ELSE df.cells[p]]]

C29_Outcome(df) == <<df.Phenotype, df.Genotype, df.ExtendedGenotype, df.Reliability>>

\* C29: the result does not depend on the call of 1054: with the Type of
\* Exon7_pos1054 replaced by any call, the four result fields are the same
C29_Ignores1054 ==
    pc = "done" =>
        \A c \in SubtypeCalls :
            C29_Outcome(assign_phenotype_genotype(C29_With1054(result_df, c)))
                = C29_Outcome(result_df)

\* an AA sample with the call "A2" at 1054 and "A1" at 467, refined by 467
\* alone
C29_Witness ==
    /\ C28_AA
    /\ result_df.cells[1054].Type = "A2"
    /\ result_df.cells[467].Type = "A1"
    /\ result_df.ExtendedGenotype = "A1A1"

\* ---- C24 (specification SpecDecoder) -----------------------------------
\* the call decided between the two modes
C24_Decided ==
    /\ pc = "parsed"
    /\ WellFormed(line)
    /\ line.depth > 0
    /\ IsRecord(stats.ret)
    /\ TotalEvents(stats.events) > 0
    /\ line.exon_info \in {"exon6", "exon7"}

C24_IndelPosition ==
    \/ line.exon_info = "exon6" /\ line.pos = 22
    \/ line.exon_info = "exon7" /\ line.pos = 687

\* C24: include-indels mode at position 22 of an exon 6 file and at
\* position 687 of an exon 7 file, whatever the depth and the number of
\* lines; exclude-indels mode at every other position of such a file with
\* depth < 200
C24_IndelPolicy ==
    C24_Decided =>
        /\ C24_IndelPosition
              => IncludeIndels(line.pos, line.depth, line.exon_info, line.total_rows)
        /\ (~C24_IndelPosition /\ line.depth < 200)
              => ~IncludeIndels(line.pos, line.depth, line.exon_info, line.total_rows)

(***************************************************************************)
(* Properties of the file pipeline from the frequency table on              *)
(* (specification SpecPipeline).                                            *)
(***************************************************************************)

\* the record read back for a written row is the row
C18_SameRecord(rec, row) ==
    /\ rec.ref_base = row[2]
    /\ <<rec.match_percent, rec.mismatch_percent, rec.insertion_percent,
         rec.deletion_percent, rec.A_percent, rec.G_percent, rec.C_percent,
         rec.T_percent>>
            = [i \in 1..8 |-> NumberOf(row[i + 2])]
    /\ rec.coverage = NumberOf(row[11])

\* C18: for every row process_mpileup_file wrote, read_nucleotide_frequencies
\* returns at the row's position a record with the same reference base, the
\* same eight percentages and the same depth
C18_RoundTrip ==
    (pc \notin {"pileup", "frequencies"} /\ output.written) =>
        \A k \in 1..Len(output.rows) :
            LET q == NumberOf(output.rows[k][1])
            IN  /\ q \in DOMAIN frequencies.positions
                /\ C18_SameRecord(frequencies.positions[q], output.rows[k])

\* the result column the claim assigns to a written block
C19_Column(q) ==
    CASE q = 93 -> 467 [] q = 165 -> 539 [] q = 272 -> 646 [] q = 307 -> 681
      [] q = 371 -> 745 [] q = 446 -> 820 [] q = 680 -> 1054 [] q = 687 -> 1061
      [] OTHER -> q

\* the row of a written block: its read count, its eight percentages and
\* the marker call of the column computed from them
C19_RowOf(b, column) ==
    LET n == [i \in 1..8 |-> NumberOf(b.stats[i])]
        row == [Reads |-> FirstNumber(b.count), Mat |-> n[1], Mis |-> n[2],
                Ins |-> n[3], Del |-> n[4], A |-> n[5], G |-> n[6], C |-> n[7],
                T |-> n[8]]
    IN  WithType(row, IF column \in Exon6Positions
                      THEN get_type_exon6(column, row.A, row.G, row.C, row.T, row.Del)
                      ELSE get_type(column, row.A, row.G, row.C, row.T))

C19_BlockRecovered(b) ==
    LET column == C19_Column(FirstNumber(b.position))
    IN  result_df.cells[column] = C19_RowOf(b, column)

\* C19: every block of the written report is recovered into the result
\* column of the diagnostic position it represents, the exon 7 subtype
\* blocks 93, 165, 272, 307, 371, 446, 680, 687 into the columns 467, 539,
\* 646, 681, 745, 820, 1054, 1061
C19_BlocksRecovered ==
    pc = "done" /\ phenotype_file # Idle =>
        \A k \in 1..Len(phenotype_file.blocks) :
            C19_BlockRecovered(phenotype_file.blocks[k])

\* the depth the frequency table holds for position q
C20_TableDepth(q) ==
    LET k == Max({m \in 1..Len(output.rows) : NumberOf(output.rows[m][1]) = q})
    IN  NumberOf(output.rows[k][11])

\* C20: the "Aligned Read Count" of every written block is numreads when a
\* coverage summary with both columns is supplied, and the depth of the
\* position in the frequency table when no coverage summary is supplied
C20_ReadCountSource ==
    (pc \notin {"pileup", "frequencies"} /\ phenotype_file # Idle) =>
        \A k \in 1..Len(phenotype_file.blocks) :
            LET b == phenotype_file.blocks[k]
            IN  /\ (args.coverage.given /\ args.coverage.has_columns)
                        => FirstNumber(b.count) = args.coverage.numreads
                /\ ~args.coverage.given
                        => FirstNumber(b.count) = C20_TableDepth(FirstNumber(b.position))

\* ---- C26 ----------------------------------------------------------------
\* the branches whose tuple is the sample's primary tuple
C26_Matching == {i \in 1..Len(PrimaryPatterns) : PrimaryPatterns[i].t = PrimaryTuple}

\* C26: the primary patterns are pairwise distinct tuples, at most one of
\* them matches a sample, and every branch that matches (whichever the
\* order of the branches puts first) gives the Phenotype, Genotype and,
\* short of the A refinement, ExtendedGenotype the sample ends with
C26_PatternsDisjoint ==
    /\ \A i, j \in 1..Len(PrimaryPatterns) :
            i # j => PrimaryPatterns[i].t # PrimaryPatterns[j].t
    /\ pc = "done" =>
            /\ Cardinality(C26_Matching) <= 1
            /\ \A i \in C26_Matching :
                    /\ result_df.Phenotype = PrimaryPatterns[i].Phenotype
                    /\ result_df.Genotype = PrimaryPatterns[i].Genotype
                    /\ \/ result_df.ExtendedGenotype = PrimaryPatterns[i].ExtendedGenotype
                       \/ PrimaryPatterns[i].Genotype = "AA"

\* a sample resolved by the last branch, after fourteen that do not match
C26_Witness ==
    /\ pc = "done"
    /\ C26_Matching = {15}
    /\ result_df.ExtendedGenotype = "AB"

\* ---- C25 ----------------------------------------------------------------
\* the file without its malformed lines
C25_WithoutMalformed(file) ==
    [exists |-> file.exists, lines |-> SelectSeq(file.lines, WellFormed)]

\* C25: the rows written for the well-formed lines of a file are the rows
\* written for the same file without its malformed lines: neither the
\* detected exon type nor the indel mode nor any percentage depends on the
\* malformed lines
C25_MalformedLinesNeutral ==
    (pc # "pileup" /\ pileup.exists) =>
        output.rows = process_mpileup_file(C25_WithoutMalformed(pileup)).rows

\* ---- C23 ----------------------------------------------------------------
\* the table has a row for every required position, and the Type of every
\* row, the added ones included, is the call of the row's own counts (the
\* table of a report that could not be parsed has the empty call in every
\* row: nothing is classified)
C23_Table6Complete ==
    /\ Exon6Positions \subseteq DOMAIN exon6_data
    /\ \A p \in DOMAIN exon6_data :
            LET row == exon6_data[p]
            IN  IF \E q \in DOMAIN report6 : report6[q] = BadBlock
                THEN row.Type = ""
                ELSE row.Type = get_type_exon6(p, row.A, row.G, row.C, row.T, row.Del)

C23_Table7Complete ==
    /\ Exon7Positions \subseteq DOMAIN exon7_data
    /\ \A p \in DOMAIN exon7_data :
            LET row == exon7_data[p]
            IN  IF \E q \in DOMAIN report7 : report7[q] = BadBlock
                THEN row.Type = ""
                ELSE row.Type = get_type(p, row.A, row.G, row.C, row.T)

\* the sample's row once the rows of both tables have been copied into it
C23_CopiedRow ==
    CopyRows(CopyRows(EmptyResult, exon6_data, Exon6Positions),
             exon7_data, Exon7Positions)

\* C23: the steps of one sample happen in a fixed order. Nothing is parsed
\* or copied before its step; a parsed table has rows for all its required
\* positions and every row is classified from its completed counts; when
\* assign_phenotype_genotype is about to run, the row holds the ten columns
\* of every required position of both exons; and the result is the
\* resolution of exactly that row, whose cells do not change afterwards
C23_StepOrder ==
    /\ pc = "exon6" => DOMAIN exon6_data = {} /\ result_df = EmptyResult
    /\ pc \in {"exon6", "exon7"} =>
            /\ DOMAIN exon7_data = {}
            /\ \A p \in Exon7Positions : result_df.cells[p] = NaNRow
            /\ result_df.Phenotype = "nan" /\ result_df.Genotype = "nan"
    /\ pc \in {"exon7", "assign", "done"} =>
            /\ C23_Table6Complete
            /\ \A p \in Exon6Positions : result_df.cells[p] = exon6_data[p]
    /\ pc \in {"assign", "done"} =>
            /\ C23_Table7Complete
            /\ \A p \in Exon7Positions : result_df.cells[p] = exon7_data[p]
    /\ pc = "assign" => result_df = C23_CopiedRow
    /\ pc = "done" =>
            /\ result_df = assign_phenotype_genotype(C23_CopiedRow)
            /\ result_df.cells = C23_CopiedRow.cells

\* a resolved sample whose exon 6 report has no block for position 58 and
\* whose exon 7 report has none for position 467: both rows were added and
\* classified before the copy, and the sample has a phenotype
C23_Witness ==
    /\ pc = "done"
    /\ 58 \notin BlockPositions(report6)
    /\ 467 \notin BlockPositions(report7)
    /\ result_df.cells[58] = exon6_data[58]
    /\ result_df.cells[58].Reads = 0
    /\ result_df.cells[467].Type = exon7_data[467].Type
    /\ result_df.Phenotype \notin {"nan", "Unknown"}

(***************************************************************************)
(* aggregate_abo_reports.py : run, process_files and merge_dataframes over  *)
(* the entries of an input directory.  File names are sequences of          *)
(* characters.                                                              *)
(***************************************************************************)

Capitals ==
    {"A", "B", "C", "D", "E", "F", "G", "H", "I", "J", "K", "L", "M",
     "N", "O", "P", "Q", "R", "S", "T", "U", "V", "W", "X", "Y", "Z"}

\* the index of the "_" that starts the last "_barcode<digits>" of the
\* name, 0 if the name does not end that way
BarcodeAt(filename) ==
    LET I == {i \in 1..Len(filename) :
                /\ i + 8 <= Len(filename)
                /\ SubSeq(filename, i, i + 7) = <<"_", "b", "a", "r", "c", "o", "d", "e">>
                /\ \A k \in (i + 8)..Len(filename) : filename[k] \in Digits}
    IN  IF I = {} THEN 0 ELSE Max(I)

\* re.match(r"^(IMM|INGS|NGS|[A-Z0-9]+)(-[A-Z0-9]+)?(-[A-Z0-9]+)?_barcode\d+$",
\* filename): one to three groups of capitals and digits joined by "-",
\* then "_barcode" and at least one digit
MatchesPattern(filename) ==
    LET i == BarcodeAt(filename)
    IN  /\ i >= 2
        /\ \A k \in 1..(i - 1) : filename[k] \in Capitals \cup Digits \cup {"-"}
        /\ filename[1] # "-" /\ filename[i - 1] # "-"
        /\ \A k \in 1..(i - 2) : ~(filename[k] = "-" /\ filename[k + 1] = "-")
        /\ Cardinality({k \in 1..(i - 1) : filename[k] = "-"}) <= 2

\* "_".join(filename.split("_")[:-1]) of a name that matches the pattern
SequencingId(filename) == SubSeq(filename, 1, BarcodeAt(filename) - 1)

\* filename.split("_")[-1].replace("barcode", "") of a name that matches
BarcodeOf(filename) == SubSeq(filename, BarcodeAt(filename) + 8, Len(filename))

\* result_df with the two sample columns of lines 1317-1318
WithSample(df, filename) ==
    [cells |-> df.cells, Phenotype |-> df.Phenotype, Genotype |-> df.Genotype,
     ExtendedGenotype |-> df.ExtendedGenotype, Reliability |-> df.Reliability,
     Barcode |-> BarcodeOf(filename), Sequencing_ID |-> SequencingId(filename)]

\* what process_file(filename) appends to self.results and to
\* self.failed_samples, for the sample directory entry
process_file(filename, entry) ==
    LET failed(reason) == [rows |-> <<>>,
                           failed |-> <<[sample |-> filename, reason |-> reason]>>]
    IN  IF ~(entry.exon6.exists /\ entry.exon7.exists)
        THEN [rows |-> <<>>, failed |-> <<>>]
        ELSE IF entry.exon6.files = <<>> THEN failed("Missing exon6 phenotype files")
        ELSE IF entry.exon7.files = <<>> THEN failed("Missing exon7 phenotype files")
        ELSE IF entry.exon6.files[1].empty THEN failed(EmptyReason("exon6"))
        ELSE IF entry.exon7.files[1].empty THEN failed(EmptyReason("exon7"))
        ELSE LET e6 == parse_exon6(entry.exon6.files[1].report)
                 e7 == parse_exon7(entry.exon7.files[1].report)
                 copied == CopyRows(CopyRows(EmptyResult, e6, Exon6Positions),
                                    e7, Exon7Positions)
             IN  [rows |-> <<WithSample(assign_phenotype_genotype(copied), filename)>>,
                  failed |-> <<>>]

\* one turn of the loop of process_files: the next entry os.listdir yields,
\* in any order; only a directory whose name matches is processed
ProcessFiles ==
    /\ pc = "process_files"
    /\ \E filename \in listing :
          /\ listing' = listing \ {filename}
          /\ IF input_dir[filename].isdir /\ MatchesPattern(filename)
             THEN LET r == process_file(filename, input_dir[filename])
                  IN  /\ results' = results \o r.rows
                      /\ failed_samples' = failed_samples \o r.failed
             ELSE UNCHANGED <<results, failed_samples>>
    /\ UNCHANGED <<pc, input_dir, final_df, report6, report7, exon6_data, exon7_data,
                   result_df, decoderVars, fileVars, classifierVars>>

\* the loop of process_files is over and run calls merge_dataframes
ProcessFilesReturn ==
    /\ pc = "process_files"
    /\ listing = {}
    /\ pc' = "merge_dataframes"
    /\ UNCHANGED <<input_dir, listing, final_df, results, failed_samples, report6,
                   report7, exon6_data, exon7_data, result_df, decoderVars, fileVars,
                   classifierVars>>

\* the code points of the characters of a Sequencing_ID, in their order
CodeOrder ==
    <<"-", "0", "1", "2", "3", "4", "5", "6", "7", "8", "9",
      "A", "B", "C", "D", "E", "F", "G", "H", "I", "J", "K", "L", "M",
      "N", "O", "P", "Q", "R", "S", "T", "U", "V", "W", "X", "Y", "Z">>

CodeOf(ch) == CHOOSE k \in 1..Len(CodeOrder) : CodeOrder[k] = ch

\* a < b for two str values
StrLess(a, b) ==
    \E k \in 1..(Len(a) + 1) :
        /\ k <= Len(b)
        /\ \A m \in 1..(k - 1) : a[m] = b[m]
        /\ k = Len(a) + 1 \/ CodeOf(a[k]) < CodeOf(b[k])

\* the sort key (Sequencing_ID, Barcode) of row x does not come after that
\* of row y
KeyLeq(x, y) ==
    \/ StrLess(x.Sequencing_ID, y.Sequencing_ID)
    \/ x.Sequencing_ID = y.Sequencing_ID /\ x.Barcode <= y.Barcode

\* a row of final_df: the Barcode column is converted with astype(int)
WithIntBarcode(row) == [row EXCEPT !.Barcode = NumberOf(row.Barcode)]

\* merge_dataframes: pd.concat(self.results) raises ValueError ("No objects
\* to concatenate") on an empty list, and run does not catch it; otherwise
\* the rows sorted by (Sequencing_ID, Barcode), rows with equal keys in
\* either order
MergeDataframes ==
    /\ pc = "merge_dataframes"
    /\ IF results = <<>>
       THEN /\ pc' = "raised"
            /\ UNCHANGED final_df
       ELSE /\ \E f \in [1..Len(results) -> 1..Len(results)] :
                  /\ \A i, j \in 1..Len(results) : i # j => f[i] # f[j]
                  /\ \A i, j \in 1..Len(results) :
                        i < j => KeyLeq(WithIntBarcode(results[f[i]]),
                                        WithIntBarcode(results[f[j]]))
                  /\ final_df' = [k \in 1..Len(results) |-> WithIntBarcode(results[f[k]])]
            /\ pc' = "save_results_to_file"
    /\ UNCHANGED <<input_dir, listing, results, failed_samples, report6, report7,
                   exon6_data, exon7_data, result_df, decoderVars, fileVars,
                   classifierVars>>

\* run prints final_df and calls save_results_to_file, which writes the
\* result files of the working directory and changes nothing of the parser
SaveResultsToFile ==
    /\ pc = "save_results_to_file"
    /\ pc' = "summary"
    /\ UNCHANGED <<dirVars, results, failed_samples, report6, report7, exon6_data,
                   exon7_data, result_df, decoderVars, fileVars, classifierVars>>

\* the failed-samples summary at the end of run
FailedSamplesSummary ==
    /\ pc = "summary"
    /\ pc' = "done"
    /\ UNCHANGED <<dirVars, results, failed_samples, report6, report7, exon6_data,
                   exon7_data, result_df, decoderVars, fileVars, classifierVars>>

(***************************************************************************)
(* The input directories of run.                                            *)
(***************************************************************************)

\* "NGS_barcode01": matches
Sample01 == <<"N", "G", "S", "_", "b", "a", "r", "c", "o", "d", "e", "0", "1">>

\* "NGS_barcode1": matches, and has the Sequencing_ID and the Barcode number of the first
Sample1 == <<"N", "G", "S", "_", "b", "a", "r", "c", "o", "d", "e", "1">>

\* "IMM-2-A_barcode12": matches with two dash groups
SampleIMM ==
    <<"I", "M", "M", "-", "2", "-", "A", "_", "b", "a", "r", "c", "o", "d", "e", "1", "2">>

\* "A-1-2-3_barcode04": three dash groups: no match
ThreeGroups ==
    <<"A", "-", "1", "-", "2", "-", "3", "_", "b", "a", "r", "c", "o", "d", "e", "0", "4">>

\* "NGS_barcode": no digit after barcode: no match
NoDigits == <<"N", "G", "S", "_", "b", "a", "r", "c", "o", "d", "e">>

\* "work": a directory of another kind: no match
LowerCase == <<"w", "o", "r", "k">>

\* an exon directory with its *.ABOPhenotype.txt files in glob order
NoExonDir == [exists |-> FALSE, files |-> <<>>]
NoPhenotypeFile == [exists |-> TRUE, files |-> <<>>]
EmptyPhenotypeFile ==
    [exists |-> TRUE, files |-> <<[empty |-> TRUE, report |-> NoData]>>]
PhenotypeFile(report) ==
    [exists |-> TRUE, files |-> <<[empty |-> FALSE, report |-> report]>>]

\* exon 6 reports: all reads on the reference, the deletion at position 22,
\* and a report with a statistics line that does not parse
Reports6 ==
    {ReferenceReport(Exon6Positions),
     [ReferenceReport(Exon6Positions) EXCEPT ![22] = BlockAt(22, 100, 0, 100)],
     [ReferenceReport(Exon6Positions) EXCEPT ![22] = BadBlock]}

SampleDir(exon6, exon7) == [isdir |-> TRUE, exon6 |-> exon6, exon7 |-> exon7]

\* what a sample directory can hold
SampleDirs ==
    {SampleDir(PhenotypeFile(r), PhenotypeFile(ReferenceReport(Exon7Positions))) :
        r \in Reports6}
    \cup {SampleDir(NoExonDir, PhenotypeFile(ReferenceReport(Exon7Positions))),
          SampleDir(NoPhenotypeFile, PhenotypeFile(ReferenceReport(Exon7Positions))),
          SampleDir(EmptyPhenotypeFile, PhenotypeFile(ReferenceReport(Exon7Positions))),
          SampleDir(PhenotypeFile(ReferenceReport(Exon6Positions)), NoPhenotypeFile),
          SampleDir(PhenotypeFile(ReferenceReport(Exon6Positions)), EmptyPhenotypeFile)}

PlainFile == [isdir |-> FALSE, exon6 |-> NoExonDir, exon7 |-> NoExonDir]

GoodDir ==
    SampleDir(PhenotypeFile(ReferenceReport(Exon6Positions)),
              PhenotypeFile(ReferenceReport(Exon7Positions)))

\* any subset of three sample names, each a sample directory of any kind
\* or, for the third, a plain file; with or without entries whose name does
\* not match
InitBatch ==
    /\ pc = "process_files"
    /\ \E S \in SUBSET {Sample01, Sample1, SampleIMM},
          other \in {{}, {ThreeGroups}, {NoDigits, LowerCase}} :
          \E d \in [S -> SampleDirs \cup {PlainFile}] :
              /\ \A n \in S : d[n] = PlainFile => n = SampleIMM
              /\ input_dir = [n \in S \cup other |-> IF n \in S THEN d[n] ELSE GoodDir]
    /\ listing = DOMAIN input_dir
    /\ results = <<>>
    /\ failed_samples = <<>>
    /\ final_df = Idle
    /\ report6 = NoData
    /\ report7 = NoData
    /\ exon6_data = NoData
    /\ exon7_data = NoData
    /\ result_df = EmptyResult
    /\ line = NoLine
    /\ stats = NoStats
    /\ pileup = Idle /\ output = Idle /\ frequencies = Idle /\ args = Idle
    /\ phenotype_file = Idle
    /\ sample = Idle /\ call = Idle

NextBatch ==
    \/ ProcessFiles
    \/ ProcessFilesReturn
    \/ MergeDataframes
    \/ SaveResultsToFile
    \/ FailedSamplesSummary

SpecBatch == InitBatch /\ [][NextBatch]_vars

\* ---- C30 ----------------------------------------------------------------
\* the frequency table is missing, empty or has fewer than 134 data rows
C30_ShortTable == ~output.written \/ Len(output.rows) < 134

C21_Rows(n) ==
    {k \in 1..Len(results) :
        /\ results[k].Sequencing_ID = SequencingId(n)
        /\ results[k].Barcode = BarcodeOf(n)}

\* the entries of failed_samples that name the sample directory n
C21_Failures(n) == {k \in 1..Len(failed_samples) : failed_samples[k].sample = n}

\* C21: once process_files has returned, every directory whose name
\* matches the sample pattern has exactly one row in results and no entry
\* in failed_samples, or no row and exactly one entry, which has a reason;
\* and its row is the row process_file gives for that directory alone,
\* whatever the other entries of the input directory are
C21_ExactlyOnePlace ==
    pc # "process_files" =>
        \A n \in DOMAIN input_dir :
            (input_dir[n].isdir /\ MatchesPattern(n)) =>
                /\ \/ Cardinality(C21_Rows(n)) = 1 /\ C21_Failures(n) = {}
                   \/ /\ C21_Rows(n) = {}
                      /\ Cardinality(C21_Failures(n)) = 1
                      /\ \A k \in C21_Failures(n) : failed_samples[k].reason # ""
                /\ \A k \in C21_Rows(n) :
                        <<results[k]>> = process_file(n, input_dir[n]).rows

\* ---- C22 ----------------------------------------------------------------
\* C22: run never ends with an exception that nothing catches, whatever
\* the input directory holds
C22_RunCompletes == pc # "raised"

====
